---- MODULE Spec2Model ----
(***************************************************************************)
(* Event-manager console: the spreadsheet import pipeline (header          *)
(* resolution, row parsing, merge/deduplication, persistence) of the       *)
(* per-event roster page and of the global participants page.              *)
(*                                                                         *)
(* Text is modelled as a sequence of characters (one-character strings;    *)
(* a Hangul syllable is written by its code point, "U+C774"), so that      *)
(* trimming, lower-casing and digit extraction are computed, not assumed.  *)
(***************************************************************************)
EXTENDS Integers, Naturals, Sequences, FiniteSets, TLC

VARIABLES
    page,       \* the screen of the route: "roster", "global", "notify", "picker" or "parser"
    mounted,    \* the screen has run the effects of its first render
    storageFull,\* localStorage.setItem throws (quota exceeded)
    eventId,    \* roster page: the event of the route
    rows,       \* roster page: useState rows
    items,      \* global page: useState items
    storage,    \* localStorage: storage key -> [present, val]
    inflight,   \* handleFile invocations suspended at an await
    error,      \* useState error
    info,       \* useState info
    warnings,   \* useState warnings (row numbers of the warning texts)
    uploading,  \* global page: useState uploading
    ops,        \* handlers the user has invoked so far
    lastResp,   \* global page: what the last finished bulk call received
    headers,    \* notify page: useState headers
    targets,    \* notify page: useState targets
    pickerOpen, \* notify page: useState pickerOpen
    dbParticipants, \* participant picker: useState dbParticipants
    selectedIds,    \* participant picker: useState selectedIds
    pfile,      \* parser harness: the file handed to the parser
    presult,    \* parser harness: what the parser returned
    state,      \* check-in page: useState state (ScanState)
    lastText,   \* check-in page: useState lastText
    history,    \* check-in page: useState history
    qrRef,      \* check-in page: qrRef.current
    camera,     \* check-in page: the Html5Qrcode instance is scanning
    scanCalls,  \* check-in page: startScan and stopScan invocations suspended at an await
    scans,      \* check-in page: codes decoded so far
    otherScans, \* check-in page: how many of them were not the first badge
    design,     \* badge builder: useState design (size in mm, field rectangles in px)
    selected,   \* badge builder: useState selected
    dragRef,    \* badge builder: dragRef.current
    gestures,   \* badge builder: drags begun and size changes made so far
    participants,  \* print page: useState participants
    qrMap,      \* print page: useState qrMap, participant id -> what the image encodes
    showQr,     \* print page: useState showQr
    isDownloading, \* print page: useState isDownloading
    gens        \* print page: QR generations suspended at an await

\* the state of the notify page and of its participant picker
notifyVars == <<headers, targets, pickerOpen, dbParticipants, selectedIds>>

\* the state of the check-in page
checkinVars == <<state, lastText, history, qrRef, camera, scanCalls, scans, otherScans>>

\* the state of the badge builder
designerVars == <<design, selected, dragRef, gestures>>

\* the state of the print page
printVars == <<participants, qrMap, showQr, isDownloading, gens>>

\* the state of the pages used on site
onsiteVars == <<checkinVars, designerVars, printVars>>

vars == <<page, mounted, storageFull, eventId, rows, items, storage, inflight, error, info,
          warnings, uploading, ops, lastResp, notifyVars,
          pfile, presult, onsiteVars>>

----------------------------------------------------------------------------
(* Bounds of the model *)

MaxOps == 2         \* handler invocations (uploads, registrations, deletions, resets) of a run

----------------------------------------------------------------------------
(* Text *)

UpperLetters == <<"A","B","C","D","E","F","G","H","I","J","K","L","M",
                  "N","O","P","Q","R","S","T","U","V","W","X","Y","Z">>
LowerLetters == <<"a","b","c","d","e","f","g","h","i","j","k","l","m",
                  "n","o","p","q","r","s","t","u","v","w","x","y","z">>

IsSpace(c) == c \in {" ", "\t"}
IsDigit(c) == c \in {"0","1","2","3","4","5","6","7","8","9"}

\* the lower-case letter of each upper-case letter
LowerOf == [c \in {UpperLetters[i] : i \in 1..Len(UpperLetters)} |->
              LowerLetters[CHOOSE i \in 1..Len(UpperLetters) : UpperLetters[i] = c]]

ToLowerChar(c) == IF c \in DOMAIN LowerOf THEN LowerOf[c] ELSE c

\* String.prototype.toLowerCase
ToLowerCase(s) == [i \in 1..Len(s) |-> ToLowerChar(s[i])]

RECURSIVE TrimLeft(_)
TrimLeft(s) == IF s # <<>> /\ IsSpace(Head(s)) THEN TrimLeft(Tail(s)) ELSE s

RECURSIVE TrimRight(_)
TrimRight(s) ==
    IF s # <<>> /\ IsSpace(s[Len(s)]) THEN TrimRight(SubSeq(s, 1, Len(s) - 1)) ELSE s

\* String.prototype.trim
Trim(s) == TrimRight(TrimLeft(s))

\* s.replace(/\s+/g, "")
RemoveSpaces(s) == SelectSeq(s, LAMBDA c : ~IsSpace(c))

\* lib/validators: onlyDigits, s.replace(/\D/g, "")
onlyDigits(s) == SelectSeq(s, IsDigit)

\* lib/validators: normalizePhoneDigits
normalizePhoneDigits(s) == onlyDigits(s)

\* lib/validators: normalizeEmail
normalizeEmail(s) == ToLowerCase(Trim(s))

\* global page: normalize
normalize(s) == ToLowerCase(Trim(s))

\* sanitizeHeader: trim, remove all whitespace, lower-case
sanitizeHeader(h) == ToLowerCase(RemoveSpaces(Trim(h)))

----------------------------------------------------------------------------
(* Header labels *)

koName    == <<"U+C774", "U+B984">>
koEmail   == <<"U+C774", "U+BA54", "U+C77C">>
koPhone   == <<"U+C804", "U+D654", "U+BC88", "U+D638">>
koMobile  == <<"U+D734", "U+B300", "U+D3F0">>
koCompany == <<"U+D68C", "U+C0AC">>
koAffil   == <<"U+C18C", "U+C18D">>
koTitle   == <<"U+C9C1", "U+D568">>
koRole    == <<"U+C5ED", "U+D560">>
koTicket  == <<"U+D2F0", "U+CF13">>
koTicketType == <<"U+D2F0", "U+CF13", "U+AD6C", "U+BD84">>
koNote    == <<"U+BE44", "U+ACE0">>
koMemo    == <<"U+BA54", "U+BAA8">>
koTitleRole == <<"U+C9C1", "U+D568", "/", "U+C5ED", "U+D560">>
enName    == <<"n", "a", "m", "e">>
enEmail   == <<"e", "m", "a", "i", "l">>
enPhone   == <<"p", "h", "o", "n", "e">>
enCompany == <<"c", "o", "m", "p", "a", "n", "y">>
enRole    == <<"r", "o", "l", "e">>
enTitle   == <<"t", "i", "t", "l", "e">>
enTicketType  == <<"t", "i", "c", "k", "e", "t", "t", "y", "p", "e">>
enTicket_Type == <<"t", "i", "c", "k", "e", "t", "_", "t", "y", "p", "e">>
enNote    == <<"n", "o", "t", "e">>

\* roster page: HEADER_ALIASES, as pairs <<header text, internal key>>
RosterAliases ==
    { <<koName, "name">>, <<koEmail, "email">>, <<koPhone, "phone">>,
      <<koMobile, "phone">>, <<koCompany, "company">>, <<koAffil, "company">>,
      <<koTitle, "role">>, <<koRole, "role">>, <<koTicket, "ticketType">>,
      <<koTicketType, "ticketType">>, <<koNote, "note">>, <<koMemo, "note">>,
      <<enName, "name">>, <<enEmail, "email">>, <<enPhone, "phone">>,
      <<enCompany, "company">>, <<enRole, "role">>, <<enTitle, "role">>,
      <<enTicketType, "ticketType">>, <<enTicket_Type, "ticketType">>,
      <<enNote, "note">> }

\* global page: HEADER_ALIASES
GlobalAliases ==
    { <<koName, "name">>, <<koEmail, "email">>, <<koPhone, "phone">>,
      <<koMobile, "phone">>, <<koCompany, "company">>, <<koAffil, "company">>,
      <<koTitle, "role">>, <<koRole, "role">>, <<koTitleRole, "role">>,
      <<enName, "name">>, <<enEmail, "email">>, <<enPhone, "phone">>,
      <<enCompany, "company">>, <<enRole, "role">>, <<enTitle, "role">> }

txtConstructor == <<"c", "o", "n", "s", "t", "r", "u", "c", "t", "o", "r">>
txtToString    == <<"t", "o", "S", "t", "r", "i", "n", "g">>
txtValueOf     == <<"v", "a", "l", "u", "e", "O", "f">>

\* property names every object literal inherits (among them)
ObjectPrototypeKeys == {txtConstructor, txtToString, txtValueOf}

\* HEADER_ALIASES[h] on an object literal: the key, the inherited member
\* ("inherited"), or "undefined"
AliasOf(aliases, h) ==
    IF \E p \in aliases : p[1] = h
    THEN (CHOOSE p \in aliases : p[1] = h)[2]
    ELSE IF h \in ObjectPrototypeKeys THEN "inherited"
    ELSE "undefined"

\* a resolver that looks the trimmed header up as written only
ResolveHeaderAsWritten(aliases, h) ==
    IF AliasOf(aliases, h) # "undefined" THEN AliasOf(aliases, h) ELSE "null"

\* HEADER_ALIASES[h] ?? HEADER_ALIASES[sanitizeHeader(h)], then key ?? null
ResolveHeader(aliases, h) ==
    LET direct == AliasOf(aliases, h)
        key == IF direct # "undefined" THEN direct ELSE AliasOf(aliases, sanitizeHeader(h))
    IN  IF key # "undefined" THEN key ELSE "null"

----------------------------------------------------------------------------
(* Files and the sheet reader *)

\* A cell of the first sheet: a stub (no value) or a string.
StubCell == [t |-> "z", v |-> <<>>]
StrCell(s) == [t |-> "s", v |-> s]

\* String(v ?? "")
CellText(c) == IF c.t = "z" THEN <<>> ELSE c.v

\* sheet_to_json treats a row as blank when it holds no cell with a value
IsBlankRow(row) == \A i \in 1..Len(row) : row[i].t = "z"

\* XLSX.utils.sheet_to_json(ws, {header: 1, blankrows: false})
SheetToAoa(grid) == SelectSeq(grid, LAMBDA row : ~IsBlankRow(row))

\* row[idx] of a row that may be shorter than the header
CellAt(row, idx) == IF idx \in 1..Len(row) THEN row[idx] ELSE StubCell

\* obj[key] = text
SetField(obj, key, text) ==
    [f \in DOMAIN obj \cup {key} |-> IF f = key THEN text ELSE obj[f]]

ParticipantKeys == {"name", "email", "phone", "company", "role", "ticketType", "note"}
UploadRowKeys == {"name", "email", "phone", "company", "role"}

\* the keys a parser assigns: the roster parser assigns through an if-chain
\* over the keys of Participant, the global parser through obj[key] = text
RosterAssigns == ParticipantKeys
GlobalAssigns == UploadRowKeys \cup {"inherited"}

\* a column loop that assigns the text of every mapped cell, empty or not
RECURSIVE ParseRowFromKeepEmpty(_, _, _, _, _)
ParseRowFromKeepEmpty(headerMap, assigns, row, idx, obj) ==
    IF idx > Len(headerMap) THEN obj
    ELSE LET key == headerMap[idx]
             text == Trim(CellText(CellAt(row, idx)))
         IN  IF key = "null" \/ key \notin assigns
             THEN ParseRowFromKeepEmpty(headerMap, assigns, row, idx + 1, obj)
             ELSE ParseRowFromKeepEmpty(headerMap, assigns, row, idx + 1,
                                        SetField(obj, key, text))

\* headerMap.forEach over one data row, columns idx..Len(headerMap)
RECURSIVE ParseRowFrom(_, _, _, _, _)
ParseRowFrom(headerMap, assigns, row, idx, obj) ==
    IF idx > Len(headerMap) THEN obj
    ELSE LET key == headerMap[idx]
             text == Trim(CellText(CellAt(row, idx)))
         IN  IF key = "null" \/ text = <<>> \/ key \notin assigns
             THEN ParseRowFrom(headerMap, assigns, row, idx + 1, obj)
             ELSE ParseRowFrom(headerMap, assigns, row, idx + 1, SetField(obj, key, text))

\* a row loop that keeps only the first warning
RECURSIVE ParseRowsFromCapped(_, _, _, _, _)
ParseRowsFromCapped(headerMap, assigns, aoa, i, acc) ==
    IF i >= Len(aoa) THEN acc
    ELSE LET obj == ParseRowFrom(headerMap, assigns, aoa[i + 1], 1, [name |-> <<>>])
         IN  IF obj.name = <<>>
             THEN ParseRowsFromCapped(headerMap, assigns, aoa, i + 1,
                      [acc EXCEPT !.warnings = IF @ = <<>> THEN <<i + 1>> ELSE @])
             ELSE ParseRowsFromCapped(headerMap, assigns, aoa, i + 1,
                      [acc EXCEPT !.rows = Append(@, obj)])

\* for (let i = 1; i < aoa.length; i++): aoa index i is TLA+ index i + 1
RECURSIVE ParseRowsFrom(_, _, _, _, _)
ParseRowsFrom(headerMap, assigns, aoa, i, acc) ==
    IF i >= Len(aoa) THEN acc
    ELSE LET obj == ParseRowFrom(headerMap, assigns, aoa[i + 1], 1, [name |-> <<>>])
         IN  IF obj.name = <<>>
             THEN ParseRowsFrom(headerMap, assigns, aoa, i + 1,
                      [acc EXCEPT !.warnings = Append(@, i + 1)])
             ELSE ParseRowsFrom(headerMap, assigns, aoa, i + 1,
                      [acc EXCEPT !.rows = Append(@, obj)])

ParseFailure(msg) == [ok |-> FALSE, error |-> msg, rows |-> <<>>, warnings |-> <<>>]

\* the header map of the first row of aoa
HeaderMapOf(aliases, aoa) ==
    [idx \in 1..Len(aoa[1]) |-> ResolveHeader(aliases, Trim(CellText(aoa[1][idx])))]

\* a parser that does not insist on a name column
ParseSheetAnyHeader(aliases, assigns, file) ==
    IF ~file.readable THEN ParseFailure("read_error")
    ELSE IF ~file.hasSheet THEN ParseFailure("no_sheet")
    ELSE LET aoa == SheetToAoa(file.grid)
         IN  IF Len(aoa) = 0 THEN ParseFailure("no_data")
             ELSE ParseRowsFrom(HeaderMapOf(aliases, aoa), assigns, aoa, 1,
                      [ok |-> TRUE, error |-> "null", rows |-> <<>>, warnings |-> <<>>])

\* the body shared by parseFileToParticipants and parseFileToRows: the file
\* read, the first sheet, the header row, the data rows
ParseSheet(aliases, assigns, file) ==
    IF ~file.readable THEN ParseFailure("read_error")
    ELSE IF ~file.hasSheet THEN ParseFailure("no_sheet")
    ELSE LET aoa == SheetToAoa(file.grid)
         IN  IF Len(aoa) = 0 THEN ParseFailure("no_data")
             ELSE LET headerMap == HeaderMapOf(aliases, aoa)
                  IN  IF ~(\E idx \in 1..Len(headerMap) : headerMap[idx] = "name")
                      THEN ParseFailure("missing_name")
                      ELSE ParseRowsFrom(headerMap, assigns, aoa, 1,
                               [ok |-> TRUE, error |-> "null",
                                rows |-> <<>>, warnings |-> <<>>])

parseFileToParticipants(file) == ParseSheet(RosterAliases, RosterAssigns, file)

parseFileToRows(file) == ParseSheet(GlobalAliases, GlobalAssigns, file)

----------------------------------------------------------------------------
(* File names *)

\* file.name.split(".").pop(): the text after the last "."
RECURSIVE LastSegment(_, _)
LastSegment(name, i) ==
    IF i = 0 THEN name
    ELSE IF name[i] = "." THEN SubSeq(name, i + 1, Len(name))
    ELSE LastSegment(name, i - 1)

ExtOf(file) == ToLowerCase(LastSegment(file.name, Len(file.name)))

\* ["xlsx", "xls", "csv"].includes(ext)
AcceptedExt(ext) ==
    ext \in { <<"x","l","s","x">>, <<"x","l","s">>, <<"c","s","v">> }

----------------------------------------------------------------------------
(* localStorage *)

STORAGE_KEY_PREFIX == "event-manager:participants:"
STORAGE_KEY == "event-manager:global-participants:v1"

EventIds == {"e1", "e2"}

\* roster page: storageKey = STORAGE_KEY_PREFIX + eventId
storageKey(ev) == <<STORAGE_KEY_PREFIX, ev>>

\* global page: the fixed key
globalKey == <<STORAGE_KEY>>

StorageKeys == {storageKey(ev) : ev \in EventIds} \cup {globalKey}

\* What a key holds: nothing, the JSON text of an array (kind "array", val
\* the array), or a text that is empty, is not JSON, or is JSON but no array.
NoItem == [present |-> FALSE, kind |-> "none", val |-> <<>>]
Item(coll) == [present |-> TRUE, kind |-> "array", val |-> coll]
RawItem(kind) == [present |-> TRUE, kind |-> kind, val |-> <<>>]

MalformedItems == {NoItem, RawItem("empty"), RawItem("invalid"), RawItem("nonarray")}

\* localStorage.setItem(key, JSON.stringify(coll))
SetItem(st, key, coll) == [st EXCEPT ![key] = Item(coll)]

\* localStorage.removeItem(key)
RemoveItem(st, key) == [st EXCEPT ![key] = NoItem]

\* try { localStorage.setItem(key, JSON.stringify(coll)) } catch { /* ignore */ }
SaveEffect(st, key, coll) == IF storageFull THEN st ELSE SetItem(st, key, coll)

\* a save effect that lets the exception of setItem escape: the page is torn down
SaveUncaught(p) == IF storageFull THEN "crashed" ELSE p

\* the page after a save effect: the catch block swallows what setItem
\* throws, the page stays as it is
SaveCaught(p) == p

\* the load effects: raw is used when it is non-empty, JSON.parse accepts
\* it and Array.isArray holds
LoadsArray(item) == item.present /\ item.kind = "array"

----------------------------------------------------------------------------
(* Messages *)

\* no bulk call has finished yet
NoResponse == [net |-> "none", status |-> 0, body |-> "empty"]

NoInfo == [kind |-> "null", added |-> 0, total |-> 0]
Info(kind, added, total) == [kind |-> kind, added |-> added, total |-> total]

----------------------------------------------------------------------------
(* Roster page: merge of handleFile *)

\* r.email ? ... : ... and r.phone ?? "": a field that is absent reads as ""
Get(r, f) == IF f \in DOMAIN r THEN r[f] ELSE <<>>

txtEmailColon == <<"e","m","a","i","l",":">>
txtNameColon  == <<"n","a","m","e",":">>
txtPhoneSep   == <<"|","p","h","o","n","e",":">>

\* (r.email ? `email:${r.email}` : `name:${r.name}|phone:${r.phone ?? ""}`).toLowerCase()
RosterKey(r) ==
    ToLowerCase(IF Get(r, "email") # <<>>
                THEN txtEmailColon \o r.email
                ELSE txtNameColon \o r.name \o txtPhoneSep \o Get(r, "phone"))

\* for (const r of merged) { if (seen.has(key)) continue; seen.add(key); dedup.push(r) }
RECURSIVE RosterDedupFrom(_, _, _, _)
RosterDedupFrom(merged, i, seen, dedup) ==
    IF i > Len(merged) THEN dedup
    ELSE LET key == RosterKey(merged[i])
         IN  IF key \in seen
             THEN RosterDedupFrom(merged, i + 1, seen, dedup)
             ELSE RosterDedupFrom(merged, i + 1, seen \cup {key}, Append(dedup, merged[i]))

\* a merge that fills the fields an existing record lacks from a dropped duplicate
RosterMergeFieldUnion(existing, parsed) ==
    LET kept == RosterDedupFrom(existing \o parsed, 1, {}, <<>>)
        Dups(r) == {j \in 1..Len(parsed) : RosterKey(parsed[j]) = RosterKey(r) /\ parsed[j] # r}
        Donor(r) == IF Dups(r) = {} THEN r ELSE parsed[CHOOSE j \in Dups(r) : TRUE]
    IN  [i \in 1..Len(kept) |->
            [f \in DOMAIN kept[i] \cup DOMAIN Donor(kept[i]) |->
                IF f \in DOMAIN kept[i] THEN kept[i][f] ELSE Donor(kept[i])[f]]]

\* merged = [...rows, ...parsed], then the dedup loop
RosterMerge(existing, parsed) == RosterDedupFrom(existing \o parsed, 1, {}, <<>>)

----------------------------------------------------------------------------
(* Inputs: the texts, records and files the pages are driven with *)

nameC   == <<"C">>
namec   == <<"c">>
emailx  == <<"x","@","e",".","c">>
emailX  == <<"X","@","e",".","c">>
phoneDashed == <<"1","-","2">>
phonePlain  == <<"1","2">>

fileCsv == <<"r",".","c","s","v">>
fileTxt == <<"r",".","t","x","t">>
fileUpperCsv == <<"R",".","C","S","V">>
fileNoDot == <<"c","s","v">>

\* data rows under the header name, email, phone
rowDashed   == <<StrCell(nameC), StubCell, StrCell(phoneDashed)>>
rowPlain    == <<StrCell(namec), StubCell, StrCell(phonePlain)>>
rowEmailx   == <<StrCell(nameC), StrCell(emailx), StubCell>>
rowEmailX   == <<StrCell(namec), StrCell(emailX), StubCell>>
rowNameOnly == <<StrCell(nameC), StubCell, StubCell>>
rowNoName   == <<StubCell, StrCell(emailx), StubCell>>
rowBoth     == <<StrCell(namec), StrCell(emailX), StrCell(phoneDashed)>>

DataRows == {rowDashed, rowPlain, rowEmailx, rowEmailX, rowNameOnly, rowNoName, rowBoth}

TemplateHeaderRow == <<StrCell(koName), StrCell(koEmail), StrCell(koPhone)>>
NoNameHeaderRow   == <<StrCell(koEmail), StrCell(koPhone)>>

\* a file: its name, whether FileReader can read it, whether the workbook
\* has a first sheet, and the rows of that sheet
File(name, hasSheet, grid) ==
    [name |-> name, readable |-> TRUE, hasSheet |-> hasSheet, grid |-> grid]

UnreadableFile(name) == [name |-> name, readable |-> FALSE, hasSheet |-> FALSE, grid |-> <<>>]

\* well-formed uploads: the template header, then one data row or one of a
\* few pairs of rows
GoodFiles ==
    {File(fileCsv, TRUE, <<TemplateHeaderRow, r>>) : r \in DataRows}
    \cup {File(fileCsv, TRUE, <<TemplateHeaderRow>> \o d) :
             d \in {<<rowNameOnly, rowNameOnly>>, <<rowDashed, rowPlain>>,
                    <<rowNoName, rowEmailx>>}}

\* uploads that the pipeline refuses
BadFiles ==
    { File(fileTxt, TRUE, <<TemplateHeaderRow, <<StrCell(nameC), StubCell, StubCell>> >>),
      UnreadableFile(fileCsv),
      File(fileCsv, FALSE, <<>>),
      File(fileCsv, TRUE, <<>>),
      File(fileCsv, TRUE, << <<StubCell, StubCell>> >>),
      File(fileCsv, TRUE, <<NoNameHeaderRow, <<StrCell(emailx), StubCell>> >>) }

\* TEMPLATE_HEADERS of the roster page: <<key, label>>
TEMPLATE_HEADERS ==
    << <<"name", koName>>, <<"email", koEmail>>, <<"phone", koPhone>>,
       <<"company", koCompany>>, <<"role", koTitleRole>>,
       <<"ticketType", koTicketType>>, <<"note", koNote>> >>

\* TEMPLATE_HEADERS of the global page with the field of each column of
\* makeSampleWorkbook: <<key, label>>
GLOBAL_TEMPLATE_HEADERS ==
    << <<"name", koName>>, <<"email", koEmail>>, <<"phone", koPhone>>,
       <<"company", koCompany>>, <<"role", koTitleRole>> >>

\* makeWorkbookFromParticipants: the header labels, then one row per record
\* with r[h.key] ?? "" in every column
makeWorkbookFromParticipants(coll) ==
    << [c \in 1..Len(TEMPLATE_HEADERS) |-> StrCell(TEMPLATE_HEADERS[c][2])] >>
    \o [i \in 1..Len(coll) |->
           [c \in 1..Len(TEMPLATE_HEADERS) |->
               StrCell(IF TEMPLATE_HEADERS[c][1] \in DOMAIN coll[i]
                       THEN coll[i][TEMPLATE_HEADERS[c][1]] ELSE <<>>)]]

fileDownload == <<"p","a","r","t","i","c","i","p","a","n","t","s","-","e","1",
                  ".","x","l","s","x">>

\* downloadCurrent: the file the browser saves, `participants-${eventId}.xlsx`
DownloadOf(coll) == File(fileDownload, TRUE, makeWorkbookFromParticipants(coll))

\* rosters that are downloaded and uploaded again
DownloadedRosters ==
    { << [name |-> nameC, email |-> emailx] >>,
      << [name |-> nameC, email |-> emailx, role |-> namec] >>,
      << [name |-> nameC, phone |-> phoneDashed, note |-> namec],
         [name |-> namec, company |-> nameC, ticketType |-> namec] >> }

DownloadedFiles == {DownloadOf(coll) : coll \in DownloadedRosters}

\* well-formed sheets under other file names
OtherNameFiles ==
    { File(fileUpperCsv, TRUE, <<TemplateHeaderRow, rowNameOnly>>),
      File(fileNoDot, TRUE, <<TemplateHeaderRow, rowNameOnly>>) }

UploadFiles == GoodFiles \cup BadFiles \cup OtherNameFiles \cup DownloadedFiles

\* the uploads the global page is driven with
GlobalUploadFiles ==
    {File(fileCsv, TRUE, <<TemplateHeaderRow, r>>) :
        r \in {rowNameOnly, rowEmailX, rowNoName, rowBoth}}
    \cup BadFiles \cup OtherNameFiles

\* collections a roster may hold in storage when the page is mounted
RosterSeeds ==
    { <<>>,
      << [name |-> nameC, phone |-> phoneDashed] >>,
      << [name |-> nameC, email |-> emailx] >> }

----------------------------------------------------------------------------
(* Parser harness: a file is handed to one of the two parsers *)

MaxParseRows == 2   \* data rows of a file handed to the parser harness

headerSpaced  == <<" ","N","a"," ","m","e","\t">>
headerUnknown == <<"n","i","c","k">>
blankText     == <<" ","\t">>

HeaderCells == {StubCell, StrCell(koName), StrCell(headerSpaced), StrCell(koEmail),
                StrCell(headerUnknown), StrCell(txtConstructor)}
BodyCells   == {StubCell, StrCell(blankText), StrCell(nameC)}

RECURSIVE SeqsUpTo(_, _)
SeqsUpTo(S, n) ==
    IF n = 0 THEN {<<>>}
    ELSE LET shorter == SeqsUpTo(S, n - 1)
         IN  shorter \cup {Append(q, x) : q \in {t \in shorter : Len(t) = n - 1}, x \in S}

ParseFiles ==
    {File(fileCsv, TRUE, <<h>> \o d) :
        h \in {<<a, b>> : a \in HeaderCells, b \in HeaderCells},
        d \in SeqsUpTo({<<a, b>> : a \in BodyCells, b \in BodyCells}, MaxParseRows)}
    \cup {File(fileCsv, FALSE, <<>>), File(fileCsv, TRUE, <<>>)}

NotParsed == [by |-> "none"] @@ ParseFailure("null")

ParseAsRoster ==
    /\ page = "parser"
    /\ presult.by = "none"
    /\ presult' = [by |-> "roster"] @@ parseFileToParticipants(pfile)
    /\ UNCHANGED <<page, mounted, storageFull, eventId, rows, items, storage, inflight,
                   error, info, warnings, uploading, ops, lastResp, notifyVars, pfile, onsiteVars>>

ParseAsGlobal ==
    /\ page = "parser"
    /\ presult.by = "none"
    /\ presult' = [by |-> "global"] @@ parseFileToRows(pfile)
    /\ UNCHANGED <<page, mounted, storageFull, eventId, rows, items, storage, inflight,
                   error, info, warnings, uploading, ops, lastResp, notifyVars, pfile, onsiteVars>>

ParserNext == ParseAsRoster \/ ParseAsGlobal

----------------------------------------------------------------------------
(* Roster page: handlers *)

RemoveAt(q, k) == SubSeq(q, 1, k - 1) \o SubSeq(q, k + 1, Len(q))

\* handleFile up to its await: messages cleared, extension checked; the
\* closure holds the rows of the render it was created in
RosterHandleFile(file) ==
    /\ page = "roster"
    /\ mounted
    /\ ops < MaxOps
    /\ ops' = ops + 1
    /\ info' = NoInfo
    /\ warnings' = <<>>
    /\ IF ~AcceptedExt(ExtOf(file))
       THEN /\ error' = "unsupported_format"
            /\ UNCHANGED inflight
       ELSE /\ error' = "null"
            /\ inflight' = Append(inflight, [file |-> file, snap |-> rows, pc |-> "parsing",
                                             parsed |-> <<>>])
    /\ UNCHANGED <<page, mounted, storageFull, eventId, rows, items, storage, uploading,
                   lastResp, notifyVars, pfile, presult, onsiteVars>>

\* handleFile after the await: parse result merged into the captured rows,
\* setRows, then the save effect of the re-render
RosterHandleFileResume(k) ==
    /\ page = "roster"
    /\ mounted
    /\ UNCHANGED ops
    /\ k \in 1..Len(inflight)
    /\ LET call == inflight[k]
           res == parseFileToParticipants(call.file)
           dedup == RosterMerge(call.snap, res.rows)
       IN  /\ inflight' = RemoveAt(inflight, k)
           /\ IF ~res.ok
              THEN /\ error' = res.error
                   /\ UNCHANGED <<rows, warnings, info, storage>>
              ELSE /\ rows' = dedup
                   /\ warnings' = res.warnings
                   /\ info' = Info("uploaded", Len(res.rows), Len(dedup))
                   /\ storage' = SaveEffect(storage, storageKey(eventId), dedup)
                   /\ UNCHANGED error
    /\ page' = SaveCaught(page)
    /\ UNCHANGED <<mounted, storageFull, eventId, items, uploading, lastResp,
                   notifyVars, pfile, presult, onsiteVars>>

\* clearAll: setRows([]), removeItem, then the save effect of the re-render
clearAll ==
    /\ page = "roster"
    /\ mounted
    /\ ops < MaxOps
    /\ ops' = ops + 1
    /\ rows' = <<>>
    /\ warnings' = <<>>
    /\ error' = "null"
    /\ info' = Info("cleared", 0, 0)
    /\ storage' = SaveEffect(RemoveItem(storage, storageKey(eventId)),
                             storageKey(eventId), <<>>)
    /\ page' = SaveCaught(page)
    /\ UNCHANGED <<mounted, storageFull, eventId, items, inflight, uploading,
                   lastResp, notifyVars, pfile, presult, onsiteVars>>

\* downloadCurrent: a message when there is nothing to download, else the
\* workbook of the rows is handed to the browser
downloadCurrent ==
    /\ page = "roster"
    /\ mounted
    /\ ops < MaxOps
    /\ ops' = ops + 1
    /\ info' = (IF rows = <<>> THEN Info("nothing_to_download", 0, 0) ELSE info)
    /\ UNCHANGED <<page, mounted, storageFull, eventId, rows, items, storage, inflight, error,
                   warnings, uploading, lastResp, notifyVars, pfile, presult, onsiteVars>>

\* the first render with rows = [], then the load effect, the save effect of
\* that render and the save effect of the re-render setRows causes
RosterMount ==
    /\ page = "roster"
    /\ ~mounted
    /\ mounted' = TRUE
    /\ rows' = (IF LoadsArray(storage[storageKey(eventId)])
                THEN storage[storageKey(eventId)].val ELSE <<>>)
    /\ storage' = SaveEffect(storage, storageKey(eventId), rows')
    /\ page' = SaveCaught(page)
    /\ UNCHANGED <<storageFull, eventId, items, inflight, error, info, warnings,
                   uploading, ops, lastResp, notifyVars, pfile, presult, onsiteVars>>

\* the mount of a development build (React StrictMode): the effects of the
\* first render run twice before the re-render. The save effect of that
\* render writes rows = [] after the first load effect has read, so the
\* second load effect reads what the save effect wrote; the last setRows wins
RosterMountStrict ==
    /\ page = "roster"
    /\ ~mounted
    /\ mounted' = TRUE
    /\ LET raw == storage[storageKey(eventId)]
           raw2 == SaveEffect(storage, storageKey(eventId), <<>>)[storageKey(eventId)]
       IN  rows' = (IF LoadsArray(raw2) THEN raw2.val
                    ELSE IF LoadsArray(raw) THEN raw.val ELSE <<>>)
    /\ storage' = SaveEffect(storage, storageKey(eventId), rows')
    /\ page' = SaveCaught(page)
    /\ UNCHANGED <<storageFull, eventId, items, inflight, error, info, warnings,
                   uploading, ops, lastResp, notifyVars, pfile, presult, onsiteVars>>

\* the route changes to event ev while the page stays mounted: storageKey is
\* recomputed, the load effect and the save effect run again, the save
\* effect once more after the re-render setRows causes
RouteChange(ev) ==
    /\ page = "roster"
    /\ mounted
    /\ ops < MaxOps
    /\ ops' = ops + 1
    /\ ev # eventId
    /\ eventId' = ev
    /\ rows' = (IF LoadsArray(storage[storageKey(ev)]) THEN storage[storageKey(ev)].val ELSE rows)
    /\ storage' = SaveEffect(storage, storageKey(ev), rows')
    /\ page' = SaveCaught(page)
    /\ UNCHANGED <<mounted, storageFull, items, inflight, error, info, warnings,
                   uploading, lastResp, notifyVars, pfile, presult, onsiteVars>>

RosterNext ==
    \/ RosterMount
    \/ RosterMountStrict
    \/ \E ev \in EventIds : RouteChange(ev)
    \/ \E file \in UploadFiles : RosterHandleFile(file)
    \/ \E k \in 1..MaxOps : RosterHandleFileResume(k)
    \/ clearAll
    \/ downloadCurrent

\* the notify page and its picker before they are used
NotifyIdle ==
    /\ headers = <<>>
    /\ targets = <<>>
    /\ pickerOpen = FALSE
    /\ dbParticipants = <<>>
    /\ selectedIds = {}

FieldTypes == {"name", "company", "title"}

\* DEFAULTS: the size in mm and the rectangle of each field in px
DEFAULTS ==
    [widthMm |-> 90, heightMm |-> 55,
     fields |-> [f \in FieldTypes |->
                    IF f = "name" THEN [x |-> 24, y |-> 32, w |-> 220, h |-> 48]
                    ELSE IF f = "company" THEN [x |-> 24, y |-> 90, w |-> 220, h |-> 28]
                    ELSE [x |-> 24, y |-> 118, w |-> 220, h |-> 28]]]

\* dragRef.current = null
NoDrag ==
    [set |-> FALSE, active |-> FALSE, mode |-> "none", handle |-> "none", field |-> "name",
     orig |-> [x |-> 0, y |-> 0, w |-> 0, h |-> 0]]

\* the badge builder as constructed
DesignerIdle ==
    /\ design = DEFAULTS
    /\ selected = "name"
    /\ dragRef = NoDrag
    /\ gestures = 0

\* Record<string, string>: no image cached
NoQr == [pid \in {} |-> 0]

\* the print page as constructed
PrintIdle ==
    /\ participants = <<>>
    /\ qrMap = NoQr
    /\ showQr = TRUE
    /\ isDownloading = FALSE
    /\ gens = <<>>

\* the check-in page as constructed
CheckinIdle ==
    /\ state = "idle"
    /\ lastText = <<>>
    /\ history = <<>>
    /\ qrRef = "null"
    /\ camera = FALSE
    /\ scanCalls = <<>>
    /\ scans = 0
    /\ otherScans = 0

OnsiteIdle == CheckinIdle /\ DesignerIdle /\ PrintIdle

\* What storage holds when the roster page of event e1 is opened: the roster
\* of e1 (mine), the roster of e2 (other), and whether setItem throws.
RosterStarts ==
    {[mine |-> Item(seed), other |-> NoItem, full |-> FALSE] : seed \in RosterSeeds}
    \cup {[mine |-> m, other |-> NoItem, full |-> FALSE] : m \in MalformedItems}
    \cup {[mine |-> Item(<< [name |-> nameC, email |-> emailx] >>),
           other |-> Item(<< [name |-> namec] >>), full |-> FALSE],
          [mine |-> Item(<< [name |-> nameC, email |-> emailx] >>),
           other |-> NoItem, full |-> TRUE],
          [mine |-> RawItem("invalid"), other |-> NoItem, full |-> TRUE]}

InitRoster ==
    /\ page = "roster"
    /\ mounted = FALSE
    /\ eventId = "e1"
    /\ rows = <<>>
    /\ \E start \in RosterStarts :
          /\ storageFull = start.full
          /\ storage = [key \in StorageKeys |->
                           IF key = storageKey("e1") THEN start.mine
                           ELSE IF key = storageKey("e2") THEN start.other ELSE NoItem]
    /\ NotifyIdle
    /\ items = <<>>
    /\ inflight = <<>>
    /\ error = "null"
    /\ info = NoInfo
    /\ warnings = <<>>
    /\ uploading = FALSE
    /\ ops = 0
    /\ lastResp = NoResponse
    /\ pfile = File(<<>>, FALSE, <<>>)
    /\ presult = NotParsed
    /\ OnsiteIdle

SpecRoster == InitRoster /\ [][RosterNext]_vars

----------------------------------------------------------------------------
(* lib/api: postJson *)

\* what fetch and res.text() deliver: a network failure, or a status and a body
Responses ==
    {[net |-> "fail", status |-> 0, body |-> "empty"]}
    \cup {[net |-> "ok", status |-> st, body |-> b] :
             st \in {200, 404}, b \in {"empty", "invalid", "object"}}

\* res.ok
StatusOk(st) == st >= 200 /\ st <= 299

\* a postJson whose try block does not cover JSON.parse of a 2xx body
postJsonLenientBody(resp) ==
    IF resp.net = "fail"
    THEN [ok |-> FALSE, status |-> 0, data |-> "null"]
    ELSE IF ~StatusOk(resp.status)
    THEN [ok |-> FALSE, status |-> resp.status, data |-> "null"]
    ELSE [ok |-> TRUE, status |-> resp.status,
          data |-> IF resp.body = "object" THEN "object" ELSE "null"]

\* postJson: a failed fetch and a body JSON.parse rejects are caught and
\* returned; json is null for an empty body.
postJson(resp) ==
    IF resp.net = "fail" \/ resp.body = "invalid"
    THEN [ok |-> FALSE, status |-> 0, data |-> "null"]
    ELSE IF ~StatusOk(resp.status)
    THEN [ok |-> FALSE, status |-> resp.status, data |-> "null"]
    ELSE [ok |-> TRUE, status |-> resp.status,
          data |-> IF resp.body = "object" THEN "object" ELSE "null"]

----------------------------------------------------------------------------
(* lib/validators *)

Take(s, n) == SubSeq(s, 1, IF Len(s) < n THEN Len(s) ELSE n)
Drop(s, n) == SubSeq(s, n + 1, Len(s))

\* formatPhoneKR: digits only, at most 11, hyphens after the 3rd and 7th
formatPhoneKR(value) ==
    LET digits == Take(onlyDigits(value), 11)
    IN  IF Len(digits) <= 3 THEN digits
        ELSE IF Len(digits) <= 7 THEN Take(digits, 3) \o <<"-">> \o Drop(digits, 3)
        ELSE Take(digits, 3) \o <<"-">> \o SubSeq(digits, 4, 7) \o <<"-">> \o Drop(digits, 7)

\* [^\s@]+
IsLocalText(s) == s # <<>> /\ \A i \in 1..Len(s) : ~IsSpace(s[i]) /\ s[i] # "@"

\* isValidEmail: /^[^\s@]+@[^\s@]+\.[^\s@]+$/ on the normalized text
isValidEmail(email) ==
    LET v == normalizeEmail(email)
    IN  \E i \in 1..Len(v) : \E j \in 1..Len(v) :
           /\ i < j
           /\ v[i] = "@"
           /\ v[j] = "."
           /\ IsLocalText(SubSeq(v, 1, i - 1))
           /\ IsLocalText(SubSeq(v, i + 1, j - 1))
           /\ IsLocalText(SubSeq(v, j + 1, Len(v)))

----------------------------------------------------------------------------
(* Global page: merge *)

\* rows.map((r) => ({id: uuid(), name: r.name, email: r.email, ...})). uuid()
\* gives every record an id of its own, so a record is identified by its
\* position in the collection; id and createdAt take no part in any
\* comparison and are left out.
MapRows(parsed) ==
    [i \in 1..Len(parsed) |->
        [f \in DOMAIN parsed[i] \cap UploadRowKeys |-> parsed[i][f]]]

\* the dedup loop of handleFile: a record is dropped when its e-mail or its
\* phone digits were already seen
RECURSIVE GlobalDedupFrom(_, _, _, _, _)
GlobalDedupFrom(merged, i, seenEmail, seenPhone, dedup) ==
    IF i > Len(merged) THEN dedup
    ELSE LET p == merged[i]
             e == IF Get(p, "email") # <<>> THEN normalizeEmail(p.email) ELSE <<>>
             ph == IF Get(p, "phone") # <<>> THEN normalizePhoneDigits(p.phone) ELSE <<>>
         IN  IF (e # <<>> /\ e \in seenEmail) \/ (ph # <<>> /\ ph \in seenPhone)
             THEN GlobalDedupFrom(merged, i + 1, seenEmail, seenPhone, dedup)
             ELSE GlobalDedupFrom(merged, i + 1,
                      IF e # <<>> THEN seenEmail \cup {e} ELSE seenEmail,
                      IF ph # <<>> THEN seenPhone \cup {ph} ELSE seenPhone,
                      Append(dedup, p))

\* merged = [...mapped, ...items], then the dedup loop
GlobalMerge(mapped, existing) == GlobalDedupFrom(mapped \o existing, 1, {}, {}, <<>>)

----------------------------------------------------------------------------
(* Global page: handlers *)

\* makeMockParticipants (id and createdAt left out, as in MapRows)
makeMockParticipants ==
    <<
      [name |-> <<"U+D64D", "U+AE38", "U+B3D9">>,
       email |-> <<"h", "o", "n", "g", "@", "e", "x", "a", "m", "p", "l", "e", ".", "c", "o", "m">>,
       phone |-> <<"0", "1", "0", "-", "1", "2", "3", "4", "-", "5", "6", "7", "8">>,
       company |-> <<"B", "T", "W", "S", "o", "f", "t">>,
       role |-> <<"U+B9E4", "U+B2C8", "U+C800">>],
      [name |-> <<"U+AE40", "U+CCA0", "U+C218">>,
       email |-> <<"k", "i", "m", "@", "e", "x", "a", "m", "p", "l", "e", ".", "c", "o", "m">>,
       phone |-> <<"0", "1", "0", "-", "0", "0", "0", "0", "-", "0", "0", "0", "0">>,
       company |-> <<"S", "a", "m", "p", "l", "e", " ", "C", "o", ".">>,
       role |-> <<"U+CC38", "U+AC00", "U+C790">>],
      [name |-> <<"U+C774", "U+C601", "U+D76C">>,
       email |-> <<"l", "e", "e", "@", "e", "x", "a", "m", "p", "l", "e", ".", "c", "o", "m">>,
       phone |-> <<"0", "1", "0", "-", "2", "2", "2", "2", "-", "3", "3", "3", "3">>,
       company |-> <<"A", "l", "p", "h", "a", " ", "L", "a", "b">>,
       role |-> <<"U+C6B4", "U+C601">>],
      [name |-> <<"U+BC15", "U+BBFC", "U+C218">>,
       email |-> <<"p", "a", "r", "k", "@", "e", "x", "a", "m", "p", "l", "e", ".", "c", "o", "m">>,
       phone |-> <<"0", "1", "0", "-", "9", "9", "9", "9", "-", "1", "1", "1", "1">>,
       company |-> <<"B", "e", "t", "a", " ", "I", "n", "c", ".">>,
       role |-> <<"U+AC8C", "U+C2A4", "U+D2B8">>],
      [name |-> <<"U+CD5C", "U+C9C0", "U+C6B0">>,
       email |-> <<"c", "h", "o", "i", "@", "e", "x", "a", "m", "p", "l", "e", ".", "c", "o", "m">>,
       phone |-> <<"0", "1", "0", "-", "4", "4", "4", "4", "-", "5", "5", "5", "5">>,
       company |-> <<"G", "a", "m", "m", "a", " ", "S", "t", "u", "d", "i", "o">>,
       role |-> <<"U+C2A4", "U+D0DC", "U+D504">>]
    >>

\* the first render with items = [], then the load effect (a stored array is
\* loaded; anything else is replaced by the example records, written to
\* storage at once), the save effect of that render and the save effect of
\* the re-render setItems causes
GlobalMount ==
    /\ page = "global"
    /\ ~mounted
    /\ mounted' = TRUE
    /\ LET raw == storage[globalKey]
       IN  IF LoadsArray(raw)
           THEN /\ items' = raw.val
                /\ UNCHANGED info
           ELSE /\ items' = makeMockParticipants
                /\ info' = (IF raw.kind = "invalid" \/ storageFull
                            THEN Info("mock_no_storage", 0, 0)
                            ELSE Info("mock_injected", 0, 0))
    /\ storage' = SaveEffect(storage, globalKey, items')
    /\ page' = SaveCaught(page)
    /\ UNCHANGED <<storageFull, eventId, rows, inflight, error, warnings, uploading,
                   ops, lastResp, notifyVars, pfile, presult, onsiteVars>>

\* the mount of a development build (React StrictMode): the effects of the
\* first render run twice before the re-render; the second load effect reads
\* what the save effect of that render (items = []) left in storage
GlobalMountStrict ==
    /\ page = "global"
    /\ ~mounted
    /\ mounted' = TRUE
    /\ LET raw == storage[globalKey]
           raw2 == SaveEffect(storage, globalKey, <<>>)[globalKey]
       IN  /\ items' = (IF LoadsArray(raw2) THEN raw2.val ELSE makeMockParticipants)
           /\ info' = (IF LoadsArray(raw) /\ LoadsArray(raw2) THEN info
                       ELSE IF \/ ~LoadsArray(raw2) /\ (raw2.kind = "invalid" \/ storageFull)
                               \/ LoadsArray(raw2) /\ raw.kind = "invalid"
                       THEN Info("mock_no_storage", 0, 0)
                       ELSE Info("mock_injected", 0, 0))
    /\ storage' = SaveEffect(storage, globalKey, items')
    /\ page' = SaveCaught(page)
    /\ UNCHANGED <<storageFull, eventId, rows, inflight, error, warnings, uploading,
                   ops, lastResp, notifyVars, pfile, presult, onsiteVars>>

\* the browser reloads the page: the component state is gone, storage stays
GlobalReload ==
    /\ page = "global"
    /\ mounted
    /\ ops < MaxOps
    /\ ops' = ops + 1
    /\ mounted' = FALSE
    /\ items' = <<>>
    /\ inflight' = <<>>
    /\ error' = "null"
    /\ info' = NoInfo
    /\ warnings' = <<>>
    /\ uploading' = FALSE
    /\ lastResp' = NoResponse
    /\ UNCHANGED <<page, storageFull, eventId, rows, storage, notifyVars, pfile, presult, onsiteVars>>

\* parseFileToRows of every file that can be uploaded here, as <<file, result>>
ParsedUploads == {<<file, parseFileToRows(file)>> : file \in GlobalUploadFiles}

\* await parseFileToRows(file)
ParsedUpload(file) == (CHOOSE p \in ParsedUploads : p[1] = file)[2]

\* handleFile without its finally block: the flag keeps its value
FlagLeftAlone(flag) == flag

\* finally { setUploading(false) }
AfterFinally(flag) == FALSE

\* handleFile up to its first await
GlobalHandleFile(file) ==
    /\ page = "global"
    /\ mounted
    /\ ops < MaxOps
    /\ ops' = ops + 1
    /\ info' = NoInfo
    /\ warnings' = <<>>
    /\ IF ~AcceptedExt(ExtOf(file))
       THEN /\ error' = "unsupported_format"
            /\ UNCHANGED <<inflight, uploading>>
       ELSE /\ error' = "null"
            /\ uploading' = TRUE
            /\ inflight' = Append(inflight, [file |-> file, snap |-> items, pc |-> "parsing",
                                             parsed |-> <<>>])
    /\ UNCHANGED <<page, mounted, storageFull, eventId, rows, items, storage, lastResp,
                   notifyVars, pfile, presult, onsiteVars>>

\* handleFile between parseFileToRows and saveParticipantsToApi
GlobalHandleFileParsed(k) ==
    /\ page = "global"
    /\ mounted
    /\ UNCHANGED ops
    /\ k \in 1..Len(inflight)
    /\ inflight[k].pc = "parsing"
    /\ LET call == inflight[k]
           res == ParsedUpload(call.file)
       IN  IF ~res.ok
           THEN /\ error' = res.error
                /\ uploading' = AfterFinally(uploading)
                /\ inflight' = RemoveAt(inflight, k)
                /\ UNCHANGED <<warnings, info>>
           ELSE /\ warnings' = res.warnings
                /\ IF res.rows = <<>>
                   THEN /\ info' = Info("no_valid_rows", 0, 0)
                        /\ uploading' = AfterFinally(uploading)
                        /\ inflight' = RemoveAt(inflight, k)
                   ELSE /\ inflight' = [inflight EXCEPT ![k].pc = "posting",
                                                        ![k].parsed = res.rows]
                        /\ UNCHANGED <<info, uploading>>
                /\ UNCHANGED error
    /\ UNCHANGED <<page, mounted, storageFull, eventId, rows, items, storage, lastResp,
                   notifyVars, pfile, presult, onsiteVars>>

\* handleFile after saveParticipantsToApi: local fallback when the call did
\* not succeed, then the save effect of the re-render
GlobalHandleFilePosted(k, resp) ==
    /\ page = "global"
    /\ mounted
    /\ UNCHANGED ops
    /\ k \in 1..Len(inflight)
    /\ inflight[k].pc = "posting"
    /\ LET call == inflight[k]
           apiResult == postJson(resp)
           mapped == MapRows(call.parsed)
           dedup == GlobalMerge(mapped, call.snap)
       IN  /\ inflight' = RemoveAt(inflight, k)
           /\ uploading' = AfterFinally(uploading)
           /\ IF ~apiResult.ok
              THEN /\ items' = dedup
                   /\ info' = Info("api_fallback", Len(mapped), Len(dedup))
                   /\ storage' = SaveEffect(storage, globalKey, dedup)
                   /\ UNCHANGED error
              ELSE /\ IF apiResult.data = "null"
                      THEN error' = "type_error" /\ UNCHANGED info
                      ELSE info' = Info("api_done", 0, 0) /\ UNCHANGED error
                   /\ UNCHANGED <<items, storage>>
    /\ lastResp' = resp
    /\ page' = SaveCaught(page)
    /\ UNCHANGED <<mounted, storageFull, eventId, rows, warnings, notifyVars,
                   pfile, presult, onsiteVars>>

\* what the registration form can hold
FormNames  == {<<>>, namec}
FormEmails == {<<>>, emailx, <<"x">>}
FormPhones == {<<>>, phoneDashed}

\* onRegister, with the form fields name, email and phone (the phone field
\* holds formatPhoneKR of what was typed), then the save effect
onRegister(name, email, typedPhone) ==
    /\ page = "global"
    /\ mounted
    /\ ops < MaxOps
    /\ ops' = ops + 1
    /\ LET phone == formatPhoneKR(typedPhone)
           n == Trim(name)
           e == Trim(email)
           eKey == IF e # <<>> THEN normalizeEmail(e) ELSE <<>>
           pKey == IF Trim(phone) # <<>> THEN normalizePhoneDigits(phone) ELSE <<>>
           exists == \E i \in 1..Len(items) :
                        LET oldE == IF Get(items[i], "email") # <<>>
                                    THEN normalizeEmail(items[i].email) ELSE <<>>
                            oldP == IF Get(items[i], "phone") # <<>>
                                    THEN normalizePhoneDigits(items[i].phone) ELSE <<>>
                        IN  (eKey # <<>> /\ oldE = eKey) \/ (pKey # <<>> /\ oldP = pKey)
           fields == {"name"} \cup (IF e # <<>> THEN {"email"} ELSE {})
                                    \cup (IF Trim(phone) # <<>> THEN {"phone"} ELSE {})
           newItem == [f \in fields |->
                          CASE f = "name" -> n
                            [] f = "email" -> e
                            [] f = "phone" -> Trim(phone)]
       IN  IF n = <<>>
           THEN error' = "name_required" /\ info' = NoInfo /\ UNCHANGED <<items, storage>>
           ELSE IF e # <<>> /\ ~isValidEmail(e)
           THEN error' = "invalid_email" /\ info' = NoInfo /\ UNCHANGED <<items, storage>>
           ELSE IF exists
           THEN error' = "already_registered" /\ info' = NoInfo /\ UNCHANGED <<items, storage>>
           ELSE /\ items' = <<newItem>> \o items
                /\ storage' = SaveEffect(storage, globalKey, items')
                /\ error' = "null"
                /\ info' = Info("registered", 0, 0)
    /\ page' = SaveCaught(page)
    /\ UNCHANGED <<mounted, storageFull, eventId, rows, inflight, warnings, uploading,
                   lastResp, notifyVars, pfile, presult, onsiteVars>>

\* onDelete(id), then the save effect; pos is where the record with that id is
onDelete(pos) ==
    /\ page = "global"
    /\ mounted
    /\ ops < MaxOps
    /\ ops' = ops + 1
    /\ pos \in 1..Len(items)
    /\ items' = RemoveAt(items, pos)
    /\ storage' = SaveEffect(storage, globalKey, items')
    /\ page' = SaveCaught(page)
    /\ UNCHANGED <<mounted, storageFull, eventId, rows, inflight, error, info, warnings,
                   uploading, lastResp, notifyVars, pfile, presult, onsiteVars>>

\* a reset whose re-render writes nothing: storage is left without the item
onResetAllRemoveOnly ==
    /\ page = "global"
    /\ mounted
    /\ ops < MaxOps
    /\ ops' = ops + 1
    /\ items' = <<>>
    /\ warnings' = <<>>
    /\ error' = "null"
    /\ info' = Info("reset", 0, 0)
    /\ storage' = RemoveItem(storage, globalKey)
    /\ UNCHANGED <<page, mounted, storageFull, eventId, rows, inflight, uploading, lastResp,
                   notifyVars, pfile, presult, onsiteVars>>

\* onResetAll: setItems([]), removeItem, then the save effect of the re-render
onResetAll ==
    /\ page = "global"
    /\ mounted
    /\ ops < MaxOps
    /\ ops' = ops + 1
    /\ items' = <<>>
    /\ warnings' = <<>>
    /\ error' = "null"
    /\ info' = Info("reset", 0, 0)
    /\ storage' = SaveEffect(RemoveItem(storage, globalKey), globalKey, <<>>)
    /\ page' = SaveCaught(page)
    /\ UNCHANGED <<mounted, storageFull, eventId, rows, inflight, uploading, lastResp,
                   notifyVars, pfile, presult, onsiteVars>>

\* onInjectMocks: setItems(mocks), setItem, then the save effect of the re-render
onInjectMocks ==
    /\ page = "global"
    /\ mounted
    /\ ops < MaxOps
    /\ ops' = ops + 1
    /\ items' = makeMockParticipants
    /\ warnings' = <<>>
    /\ error' = "null"
    /\ info' = Info("mocks", Len(makeMockParticipants), 0)
    /\ storage' = SaveEffect(storage, globalKey, makeMockParticipants)
    /\ page' = SaveCaught(page)
    /\ UNCHANGED <<mounted, storageFull, eventId, rows, inflight, uploading, lastResp,
                   notifyVars, pfile, presult, onsiteVars>>

\* collections the global page may find in storage when it is mounted
GlobalSeeds ==
    { <<>>,
      << [name |-> nameC, phone |-> phoneDashed] >>,
      << [name |-> nameC, email |-> emailx] >> }

\* What storage holds when the global page is opened, and whether setItem throws.
GlobalStarts ==
    {[mine |-> Item(seed), full |-> FALSE] : seed \in GlobalSeeds}
    \cup {[mine |-> m, full |-> FALSE] : m \in MalformedItems}
    \cup {[mine |-> Item(<< [name |-> nameC, email |-> emailx] >>), full |-> TRUE],
          [mine |-> RawItem("nonarray"), full |-> TRUE]}

GlobalNext ==
    \/ GlobalMount
    \/ GlobalMountStrict
    \/ GlobalReload
    \/ \E file \in GlobalUploadFiles : GlobalHandleFile(file)
    \/ \E k \in 1..MaxOps : GlobalHandleFileParsed(k)
    \/ \E k \in 1..MaxOps, resp \in Responses : GlobalHandleFilePosted(k, resp)
    \/ \E n \in FormNames, e \in FormEmails, p \in FormPhones : onRegister(n, e, p)
    \/ \E pos \in 1..(Len(makeMockParticipants) + MaxOps) : onDelete(pos)
    \/ onResetAll
    \/ onInjectMocks

InitGlobal ==
    /\ page = "global"
    /\ mounted = FALSE
    /\ eventId = "e1"
    /\ rows = <<>>
    /\ items = <<>>
    /\ \E start \in GlobalStarts :
          /\ storageFull = start.full
          /\ storage = [key \in StorageKeys |-> IF key = globalKey THEN start.mine ELSE NoItem]
    /\ NotifyIdle
    /\ inflight = <<>>
    /\ error = "null"
    /\ info = NoInfo
    /\ warnings = <<>>
    /\ uploading = FALSE
    /\ ops = 0
    /\ lastResp = NoResponse
    /\ pfile = File(<<>>, FALSE, <<>>)
    /\ presult = NotParsed
    /\ OnsiteIdle

SpecGlobal == InitGlobal /\ [][GlobalNext]_vars

----------------------------------------------------------------------------
(* Notify page with the participant preview, and its participant picker.   *)
(* A row is a function from the header texts of its sheet to cell texts.   *)

BaseHeaders == <<enName, enEmail, enCompany, enPhone>>

txtEmptyHeader == <<"_","_","E","M","P","T","Y">>
DigitChars == <<"1","2","3","4","5","6","7","8","9">>

\* r[h] ?? ""
Cell(r, h) == IF h \in DOMAIN r THEN r[h] ELSE <<>>

\* sheet_to_json without header option: the key of column c is the text of
\* the header cell ("__EMPTY" for a cell without value), with "_n" appended
\* when n columns to its left have the same text
HeaderKeyAt(row, c) ==
    LET base(d) == IF row[d].t = "z" THEN txtEmptyHeader ELSE row[d].v
        n == Cardinality({d \in 1..(c - 1) : base(d) = base(c)})
    IN  IF n = 0 THEN base(c) ELSE base(c) \o <<"_", DigitChars[n]>>

HeaderKeys(row) == [c \in 1..Len(row) |-> HeaderKeyAt(row, c)]

\* one object of sheet_to_json(ws, {defval: "", raw: false}), then
\* obj[k] = String(r[k] ?? "")
JsonRow(hdr, row) ==
    [h \in {hdr[c] : c \in 1..Len(hdr)} |->
        CellText(CellAt(row, CHOOSE c \in 1..Len(hdr) : hdr[c] = h))]

\* notify page: parseFile; the first row of the sheet is the header row,
\* rows without a value are skipped, headers are the keys of the first object
parseFile(file) ==
    IF ~file.readable THEN [ok |-> FALSE, rows |-> <<>>, headers |-> <<>>]
    ELSE IF ~file.hasSheet \/ file.grid = <<>>
    THEN [ok |-> TRUE, rows |-> <<>>, headers |-> <<>>]
    ELSE LET hdr == HeaderKeys(file.grid[1])
             body == SelectSeq(Tail(file.grid), LAMBDA row : ~IsBlankRow(row))
             json == [i \in 1..Len(body) |-> JsonRow(hdr, body[i])]
         IN  [ok |-> TRUE, rows |-> json, headers |-> IF json = <<>> THEN <<>> ELSE hdr]

\* participant picker: normalizeEmailKey
normalizeEmailKey(v) == ToLowerCase(Trim(v))

\* participant picker: normalizePhoneKey, v.replace(/[^\d]/g, "").trim()
normalizePhoneKey(v) == Trim(onlyDigits(v))

\* one element of the stored array as a DbParticipant: id and name as
\* text, email, company and phone only when they are truthy
DbParticipantOf(p) ==
    [f \in {"id", "name"} \cup {g \in {"email", "company", "phone"} : Get(p, g) # <<>>} |->
        Get(p, f)]

\* loadDbParticipants: [] unless the stored text is the JSON of an array;
\* elements whose name is blank are dropped
loadDbParticipants(item) ==
    IF ~LoadsArray(item) THEN <<>>
    ELSE SelectSeq([i \in 1..Len(item.val) |-> DbParticipantOf(item.val[i])],
                   LAMBDA p : Trim(p.name) # <<>>)

\* addSelected: picked.map(p => ({name, email, company, phone})), absent as ""
MappedRow(p) ==
    [h \in {enName, enEmail, enCompany, enPhone} |->
        IF h = enName THEN p.name
        ELSE IF h = enEmail THEN Get(p, "email")
        ELSE IF h = enCompany THEN Get(p, "company")
        ELSE Get(p, "phone")]

\* addSelected: keyOf
keyOf(r) ==
    LET email == Trim(Cell(r, enEmail))
    IN  IF email # <<>>
        THEN txtEmailColon \o normalizeEmailKey(email)
        ELSE txtNameColon \o ToLowerCase(Trim(Cell(r, enName)))
             \o txtPhoneSep \o normalizePhoneKey(Cell(r, enPhone))

\* for (const r of merged) { if (seen.has(key)) continue; seen.add(key); dedup.push(r) }
RECURSIVE PickerDedupFrom(_, _, _, _)
PickerDedupFrom(merged, i, seen, dedup) ==
    IF i > Len(merged) THEN dedup
    ELSE LET key == keyOf(merged[i])
         IN  IF key \in seen
             THEN PickerDedupFrom(merged, i + 1, seen, dedup)
             ELSE PickerDedupFrom(merged, i + 1, seen \cup {key}, Append(dedup, merged[i]))

\* addSelected: the rows handed to onAddRows
ToAdd(existingRows, picked) ==
    LET mapped == [i \in 1..Len(picked) |-> MappedRow(picked[i])]
        dedup == PickerDedupFrom(existingRows \o mapped, 1, {}, <<>>)
        existingKeys == {keyOf(existingRows[i]) : i \in 1..Len(existingRows)}
    IN  SelectSeq(dedup, LAMBDA r : keyOf(r) \notin existingKeys)

\* Array.from(new Set([...headers, ...baseHeaders]))
RECURSIVE UniqueFrom(_, _, _)
UniqueFrom(q, i, acc) ==
    IF i > Len(q) THEN acc
    ELSE IF \E m \in 1..Len(acc) : acc[m] = q[i] THEN UniqueFrom(q, i + 1, acc)
    ELSE UniqueFrom(q, i + 1, Append(acc, q[i]))

NextHeaders(hs) == IF hs = <<>> THEN BaseHeaders ELSE UniqueFrom(hs \o BaseHeaders, 1, <<>>)

(* Inputs of the picker *)

idP1 == <<"p","1">>
idP2 == <<"p","2">>
idP3 == <<"p","3">>
idP4 == <<"p","4">>

\* the global collections the picker may find in storage
PickerStored ==
    { << [id |-> idP1, name |-> nameC, email |-> emailx],
         [id |-> idP2, name |-> namec, email |-> emailX],
         [id |-> idP3, name |-> nameC, phone |-> phoneDashed],
         [id |-> idP4, name |-> namec, phone |-> phonePlain] >>,
      << [id |-> idP1, name |-> blankText, email |-> emailx],
         [id |-> idP2, name |-> namec] >> }

BaseHeaderRow == <<StrCell(enName), StrCell(enEmail), StrCell(enCompany), StrCell(enPhone)>>

\* the sheets the preview may be filled from
PreviewFiles ==
    { File(fileCsv, TRUE, <<BaseHeaderRow,
                            <<StrCell(namec), StrCell(emailX), StubCell, StubCell>> >>),
      File(fileCsv, TRUE, <<BaseHeaderRow,
                            <<StrCell(nameC), StubCell, StubCell, StrCell(phonePlain)>>,
                            <<StrCell(nameC), StubCell, StubCell, StrCell(phonePlain)>> >>),
      File(fileCsv, TRUE, << <<StrCell(koName), StrCell(koEmail)>>,
                             <<StrCell(nameC), StrCell(emailx)>> >>),
      File(fileCsv, FALSE, <<>>),
      UnreadableFile(fileCsv),
      File(fileTxt, TRUE, <<BaseHeaderRow>>) }

(* Handlers *)

\* handleFile of the preview: the rows and headers are replaced by those of
\* the file, whatever they were
PreviewHandleFile(file, big) ==
    /\ page = "picker"
    /\ ops < MaxOps
    /\ ops' = ops + 1
    /\ IF ~AcceptedExt(ExtOf(file))
       THEN error' = "unsupported_format" /\ UNCHANGED <<rows, headers>>
       ELSE IF big
       THEN error' = "too_big" /\ UNCHANGED <<rows, headers>>
       ELSE IF ~parseFile(file).ok
       THEN error' = "parse_failed" /\ UNCHANGED <<rows, headers>>
       ELSE /\ error' = ""
            /\ headers' = parseFile(file).headers
            /\ rows' = parseFile(file).rows
    /\ UNCHANGED <<page, mounted, storageFull, eventId, items, storage, inflight, info,
                   warnings, uploading, lastResp, targets, pickerOpen, dbParticipants,
                   selectedIds, pfile, presult, onsiteVars>>

\* setPickerOpen(true), then the effect of the picker: the list is loaded
\* and the selection emptied
OpenPicker ==
    /\ page = "picker"
    /\ ~pickerOpen
    /\ ops < MaxOps
    /\ ops' = ops + 1
    /\ pickerOpen' = TRUE
    /\ dbParticipants' = loadDbParticipants(storage[globalKey])
    /\ selectedIds' = {}
    /\ UNCHANGED <<page, mounted, storageFull, eventId, rows, items, storage, inflight, error,
                   info, warnings, uploading, lastResp, headers, targets, pfile, presult, onsiteVars>>

\* toggleSelect(id)
toggleSelect(id) ==
    /\ page = "picker"
    /\ pickerOpen
    /\ \E i \in 1..Len(dbParticipants) : dbParticipants[i].id = id
    /\ selectedIds' = (IF id \in selectedIds THEN selectedIds \ {id} ELSE selectedIds \cup {id})
    /\ UNCHANGED <<page, mounted, storageFull, eventId, rows, items, storage, inflight, error,
                   info, warnings, uploading, ops, lastResp, headers, targets, pickerOpen,
                   dbParticipants, pfile, presult, onsiteVars>>

\* selectAllFiltered, the search box being empty
selectAllFiltered ==
    /\ page = "picker"
    /\ pickerOpen
    /\ dbParticipants # <<>>
    /\ selectedIds' = selectedIds \cup {dbParticipants[i].id : i \in 1..Len(dbParticipants)}
    /\ UNCHANGED <<page, mounted, storageFull, eventId, rows, items, storage, inflight, error,
                   info, warnings, uploading, ops, lastResp, headers, targets, pickerOpen,
                   dbParticipants, pfile, presult, onsiteVars>>

\* clearSelected
clearSelected ==
    /\ page = "picker"
    /\ pickerOpen
    /\ selectedIds' = {}
    /\ UNCHANGED <<page, mounted, storageFull, eventId, rows, items, storage, inflight, error,
                   info, warnings, uploading, ops, lastResp, headers, targets, pickerOpen,
                   dbParticipants, pfile, presult, onsiteVars>>

\* addSelected with something picked: onAddRows(toAdd), then onClose()
addSelected ==
    /\ page = "picker"
    /\ pickerOpen
    /\ LET picked == SelectSeq(dbParticipants, LAMBDA p : p.id \in selectedIds)
           toAdd == ToAdd(rows, picked)
       IN  /\ picked # <<>>
           /\ IF toAdd = <<>>
              THEN UNCHANGED <<rows, headers>>
              ELSE /\ headers' = NextHeaders(headers)
                   /\ rows' = rows \o toAdd
    /\ pickerOpen' = FALSE
    /\ UNCHANGED <<page, mounted, storageFull, eventId, items, storage, inflight, error, info,
                   warnings, uploading, ops, lastResp, targets, dbParticipants, selectedIds,
                   pfile, presult, onsiteVars>>

\* the close button of the picker: onClose()
ClosePicker ==
    /\ page = "picker"
    /\ pickerOpen
    /\ pickerOpen' = FALSE
    /\ UNCHANGED <<page, mounted, storageFull, eventId, rows, items, storage, inflight, error,
                   info, warnings, uploading, ops, lastResp, headers, targets, dbParticipants,
                   selectedIds, pfile, presult, onsiteVars>>

PickerNext ==
    \/ \E file \in PreviewFiles, big \in BOOLEAN : PreviewHandleFile(file, big)
    \/ OpenPicker
    \/ \E id \in {idP1, idP2, idP3, idP4} : toggleSelect(id)
    \/ selectAllFiltered
    \/ clearSelected
    \/ addSelected
    \/ ClosePicker

InitPicker ==
    /\ page = "picker"
    /\ mounted = TRUE
    /\ storageFull = FALSE
    /\ eventId = "e1"
    /\ rows = <<>>
    /\ items = <<>>
    /\ \E mine \in {Item(coll) : coll \in PickerStored} \cup MalformedItems :
          storage = [key \in StorageKeys |-> IF key = globalKey THEN mine ELSE NoItem]
    /\ inflight = <<>>
    /\ error = ""
    /\ info = NoInfo
    /\ warnings = <<>>
    /\ uploading = FALSE
    /\ ops = 0
    /\ lastResp = NoResponse
    /\ NotifyIdle
    /\ pfile = File(<<>>, FALSE, <<>>)
    /\ presult = NotParsed
    /\ OnsiteIdle

SpecPicker == InitPicker /\ [][PickerNext]_vars

----------------------------------------------------------------------------
(* Notify page with the recipient list (targets) *)

koMail == <<"U+BA54", "U+C77C">>
enEMail == <<"e", "-", "m", "a", "i", "l">>

\* the candidates of the column lookups
EmailCandidates   == {enEmail, enEMail, koMail, koEmail}
NameCandidates    == {enName, koName}
CompanyCandidates == {enCompany, koCompany, koAffil}
PhoneCandidates   == {enPhone, koPhone, koMobile}

\* notify page: normalizeHeader
normalizeHeader(h) == ToLowerCase(Trim(h))

\* headers.find((h) => candidates.includes(normalizeHeader(h))) ?? ""
FindColumn(hs, candidates) ==
    IF \E c \in 1..Len(hs) : normalizeHeader(hs[c]) \in candidates
    THEN hs[CHOOSE c \in 1..Len(hs) :
                /\ normalizeHeader(hs[c]) \in candidates
                /\ \A d \in 1..(c - 1) : normalizeHeader(hs[d]) \notin candidates]
    ELSE <<>>

\* notify page: isEmail, /^[^\s@]+@[^\s@]+\.[^\s@]+$/ on the trimmed text
isEmail(text) ==
    LET v == Trim(text)
    IN  \E i \in 1..Len(v) : \E j \in 1..Len(v) :
           /\ i < j
           /\ v[i] = "@"
           /\ v[j] = "."
           /\ IsLocalText(SubSeq(v, 1, i - 1))
           /\ IsLocalText(SubSeq(v, i + 1, j - 1))
           /\ IsLocalText(SubSeq(v, j + 1, Len(v)))

\* targetEmailSet of a render
TargetEmailSet(ts) == {normalizeEmail(ts[i].email) : i \in 1..Len(ts)}

\* loadEventParticipantsMock: the rows
EventParticipantsMock ==
    <<
      (enName :> <<"U+D64D", "U+AE38", "U+B3D9">>) @@ (enEmail :> <<"h", "o", "n", "g", "@", "e", "x", "a", "m", "p", "l", "e", ".", "c", "o", "m">>)
      @@ (enCompany :> <<"B", "T", "W", "S", "o", "f", "t">>) @@ (enPhone :> <<"0", "1", "0", "-", "1", "2", "3", "4", "-", "5", "6", "7", "8">>),
      (enName :> <<"U+AE40", "U+C601", "U+D76C">>) @@ (enEmail :> <<"k", "i", "m", "@", "e", "x", "a", "m", "p", "l", "e", ".", "c", "o", "m">>)
      @@ (enCompany :> <<"S", "a", "m", "p", "l", "e", " ", "I", "n", "c", ".">>) @@ (enPhone :> <<"0", "1", "0", "-", "2", "2", "2", "2", "-", "3", "3", "3", "3">>),
      (enName :> <<"U+C774", "U+CCA0", "U+C218">>) @@ (enEmail :> <<"l", "e", "e", "@", "e", "x", "a", "m", "p", "l", "e", ".", "c", "o", "m">>)
      @@ (enCompany :> <<"E", "v", "e", "n", "t", " ", "C", "o", "r", "p", ".">>) @@ (enPhone :> <<"0", "1", "0", "-", "9", "9", "9", "9", "-", "8", "8", "8", "8">>)
    >>

\* the text of a column that may not have been found: col ? (r[col] ?? "").trim() : ""
ColumnText(r, col) == IF col = <<>> THEN <<>> ELSE Trim(Cell(r, col))

\* the target made of row r (the id, unique to each target, is left out: a
\* target is identified by its position)
TargetOfRow(r, emailCol, nameCol, companyCol, phoneCol) ==
    [email |-> Trim(Cell(r, emailCol)),
     name |-> ColumnText(r, nameCol),
     company |-> ColumnText(r, companyCol),
     phone |-> ColumnText(r, phoneCol)]

\* the loops of handleFile and moveAllValidParticipantsToTargets: every row
\* with a valid e-mail that is not in the targetEmailSet of the render is
\* put in front of the list by addTarget; acc is what was put so far
RECURSIVE AddRows(_, _, _, _, _, _, _, _)
AddRows(rs, i, emailCol, nameCol, companyCol, phoneCol, seen, acc) ==
    IF i > Len(rs) THEN acc
    ELSE LET email == Trim(Cell(rs[i], emailCol))
         IN  IF ~isEmail(email) \/ normalizeEmail(email) \in seen
             THEN AddRows(rs, i + 1, emailCol, nameCol, companyCol, phoneCol, seen, acc)
             ELSE AddRows(rs, i + 1, emailCol, nameCol, companyCol, phoneCol, seen,
                      <<TargetOfRow(rs[i], emailCol, nameCol, companyCol, phoneCol)>> \o acc)

(* Inputs of the notify page *)

headerEmailSpaced == <<" ","E","m","a","i","l">>
emailInvalid == <<"x">>

NotifyFiles ==
    { File(fileCsv, TRUE, << <<StrCell(enName), StrCell(headerEmailSpaced)>>,
                             <<StrCell(nameC), StrCell(emailx)>>,
                             <<StrCell(namec), StrCell(emailX)>> >>),
      File(fileCsv, TRUE, << <<StrCell(koEmail)>>, <<StrCell(emailx)>> >>),
      File(fileCsv, TRUE, << <<StrCell(enName), StrCell(enEmail)>>,
                             <<StrCell(nameC), StrCell(emailInvalid)>> >>),
      File(fileCsv, TRUE, << <<StrCell(enName)>>, <<StrCell(nameC)>> >>),
      File(fileCsv, FALSE, <<>>),
      UnreadableFile(fileCsv),
      File(fileTxt, TRUE, << <<StrCell(enEmail)>>, <<StrCell(emailx)>> >>) }

ManualEmails == {emailx, emailX, emailInvalid}
ManualNames  == {<<>>, nameC}

(* Handlers *)

\* the effect of the first render: the participants of the event are loaded
NotifyMount ==
    /\ page = "notify"
    /\ ~mounted
    /\ mounted' = TRUE
    /\ rows' = EventParticipantsMock
    /\ headers' = BaseHeaders
    /\ UNCHANGED <<page, storageFull, eventId, items, storage, inflight, error, info, warnings,
                   uploading, ops, lastResp, targets, pickerOpen, dbParticipants, selectedIds,
                   pfile, presult, onsiteVars>>

\* handleFile up to its await; the closure holds the targetEmailSet of the
\* render it was created in
NotifyHandleFile(file, big) ==
    /\ page = "notify"
    /\ ops < MaxOps
    /\ ops' = ops + 1
    /\ info' = NoInfo
    /\ IF ~AcceptedExt(ExtOf(file))
       THEN error' = "unsupported_format" /\ UNCHANGED inflight
       ELSE IF big
       THEN error' = "too_big" /\ UNCHANGED inflight
       ELSE /\ error' = ""
            /\ inflight' = Append(inflight, [file |-> file, snap |-> targets,
                                             pc |-> "parsing", parsed |-> <<>>])
    /\ UNCHANGED <<page, mounted, storageFull, eventId, rows, items, storage, warnings,
                   uploading, lastResp, notifyVars, pfile, presult, onsiteVars>>

\* handleFile after the await: the columns of the file are looked up, the
\* rows are added, the message tells how many (kept in info)
NotifyHandleFileResume(k) ==
    /\ page = "notify"
    /\ k \in 1..Len(inflight)
    /\ LET call == inflight[k]
           res == parseFile(call.file)
           upEmailCol == FindColumn(res.headers, EmailCandidates)
           upNameCol == FindColumn(res.headers, NameCandidates)
           upCompanyCol == FindColumn(res.headers, CompanyCandidates)
           upPhoneCol == FindColumn(res.headers, PhoneCandidates)
           new == AddRows(res.rows, 1, upEmailCol, upNameCol, upCompanyCol, upPhoneCol,
                          TargetEmailSet(call.snap), <<>>)
       IN  /\ inflight' = RemoveAt(inflight, k)
           /\ IF ~res.ok
              THEN error' = "parse_failed" /\ UNCHANGED <<targets, info>>
              ELSE IF upEmailCol = <<>>
              THEN error' = "no_email_column" /\ UNCHANGED <<targets, info>>
              ELSE /\ targets' = new \o targets
                   /\ error' = "upload_done"
                   /\ info' = Info("upload_done", Len(new), 0)
    /\ UNCHANGED <<page, mounted, storageFull, eventId, rows, items, storage, warnings,
                   uploading, ops, lastResp, headers, pickerOpen, dbParticipants, selectedIds,
                   pfile, presult, onsiteVars>>

\* the add button of row pos of the preview (enabled for a valid e-mail that
\* is not a target yet): addTargetFromRow(r)
addTargetFromRow(pos) ==
    /\ page = "notify"
    /\ ops < MaxOps
    /\ ops' = ops + 1
    /\ pos \in 1..Len(rows)
    /\ LET emailColumn == FindColumn(headers, EmailCandidates)
           new == AddRows(<<rows[pos]>>, 1, emailColumn,
                          FindColumn(headers, NameCandidates),
                          FindColumn(headers, CompanyCandidates),
                          FindColumn(headers, PhoneCandidates),
                          TargetEmailSet(targets), <<>>)
       IN  /\ emailColumn # <<>>
           /\ new # <<>>
           /\ targets' = new \o targets
    /\ UNCHANGED <<page, mounted, storageFull, eventId, rows, items, storage, inflight, error,
                   info, warnings, uploading, lastResp, headers, pickerOpen, dbParticipants,
                   selectedIds, pfile, presult, onsiteVars>>

\* addManualTarget with the form holding email and name (the button is
\* enabled for a non-blank e-mail the form has no complaint about)
addManualTarget(email, name) ==
    /\ page = "notify"
    /\ ops < MaxOps
    /\ ops' = ops + 1
    /\ info' = NoInfo
    /\ IF ~isEmail(Trim(email))
       THEN error' = "manual_invalid_email" /\ UNCHANGED targets
       ELSE /\ error' = ""
            /\ IF normalizeEmail(Trim(email)) \in TargetEmailSet(targets)
               THEN UNCHANGED targets
               ELSE targets' = << [email |-> Trim(email), name |-> Trim(name)] >> \o targets
    /\ UNCHANGED <<page, mounted, storageFull, eventId, rows, items, storage, inflight,
                   warnings, uploading, lastResp, headers, pickerOpen, dbParticipants,
                   selectedIds, pfile, presult, onsiteVars>>

\* removeTarget(id); pos is where the target with that id is
removeTarget(pos) ==
    /\ page = "notify"
    /\ ops < MaxOps
    /\ ops' = ops + 1
    /\ pos \in 1..Len(targets)
    /\ targets' = RemoveAt(targets, pos)
    /\ UNCHANGED <<page, mounted, storageFull, eventId, rows, items, storage, inflight, error,
                   info, warnings, uploading, lastResp, headers, pickerOpen, dbParticipants,
                   selectedIds, pfile, presult, onsiteVars>>

\* clearTargets (the button is enabled when there are targets)
clearTargets ==
    /\ page = "notify"
    /\ ops < MaxOps
    /\ ops' = ops + 1
    /\ targets # <<>>
    /\ targets' = <<>>
    /\ UNCHANGED <<page, mounted, storageFull, eventId, rows, items, storage, inflight, error,
                   info, warnings, uploading, lastResp, headers, pickerOpen, dbParticipants,
                   selectedIds, pfile, presult, onsiteVars>>

\* moveAllValidParticipantsToTargets (the button is enabled when a row has
\* a valid e-mail)
moveAllValidParticipantsToTargets ==
    /\ page = "notify"
    /\ ops < MaxOps
    /\ ops' = ops + 1
    /\ LET emailColumn == FindColumn(headers, EmailCandidates)
           validEmailRows == SelectSeq(rows, LAMBDA r : isEmail(Cell(r, emailColumn)))
       IN  /\ emailColumn # <<>>
           /\ validEmailRows # <<>>
           /\ targets' = AddRows(validEmailRows, 1, emailColumn,
                                 FindColumn(headers, NameCandidates),
                                 FindColumn(headers, CompanyCandidates),
                                 FindColumn(headers, PhoneCandidates),
                                 TargetEmailSet(targets), <<>>) \o targets
    /\ UNCHANGED <<page, mounted, storageFull, eventId, rows, items, storage, inflight, error,
                   info, warnings, uploading, lastResp, headers, pickerOpen, dbParticipants,
                   selectedIds, pfile, presult, onsiteVars>>

NotifyNext ==
    \/ NotifyMount
    \/ \E file \in NotifyFiles, big \in BOOLEAN : NotifyHandleFile(file, big)
    \/ \E k \in 1..MaxOps : NotifyHandleFileResume(k)
    \/ \E pos \in 1..Len(EventParticipantsMock) : addTargetFromRow(pos)
    \/ \E email \in ManualEmails, name \in ManualNames : addManualTarget(email, name)
    \/ \E pos \in 1..(Len(EventParticipantsMock) + 2 * MaxOps) : removeTarget(pos)
    \/ clearTargets
    \/ moveAllValidParticipantsToTargets

InitNotify ==
    /\ page = "notify"
    /\ mounted = FALSE
    /\ storageFull = FALSE
    /\ eventId = "e1"
    /\ rows = <<>>
    /\ items = <<>>
    /\ storage = [key \in StorageKeys |-> NoItem]
    /\ inflight = <<>>
    /\ error = ""
    /\ info = NoInfo
    /\ warnings = <<>>
    /\ uploading = FALSE
    /\ ops = 0
    /\ lastResp = NoResponse
    /\ NotifyIdle
    /\ pfile = File(<<>>, FALSE, <<>>)
    /\ presult = NotParsed
    /\ OnsiteIdle

SpecNotify == InitNotify /\ [][NotifyNext]_vars

----------------------------------------------------------------------------
(* Specifications *)

InitParser ==
    /\ page = "parser"
    /\ mounted = TRUE
    /\ storageFull = FALSE
    /\ NotifyIdle
    /\ eventId = "e1"
    /\ rows = <<>>
    /\ items = <<>>
    /\ storage = [key \in StorageKeys |-> NoItem]
    /\ inflight = <<>>
    /\ error = "null"
    /\ info = NoInfo
    /\ warnings = <<>>
    /\ uploading = FALSE
    /\ ops = 0
    /\ lastResp = NoResponse
    /\ pfile \in ParseFiles
    /\ presult = NotParsed
    /\ OnsiteIdle

SpecParser == InitParser /\ [][ParserNext]_vars

----------------------------------------------------------------------------
(* Check-in page: the QR scanner and its log.                               *)
(* The time of a log entry is the ordinal of its scan.                      *)

HistoryMax == 20      \* slice(0, 20)
MaxScans == 22        \* codes decoded in a run
MaxOtherScans == 1    \* of them, codes other than the first badge

txtBadge1 == <<"E","M","1","|","e","1","|","p","1">>
txtBadge2 == <<"E","M","1","|","e","1","|","p","2">>

\* startScan without its guard
canStartAlways(st) == TRUE

\* canStart: state === "idle" || state === "error"
canStart(st) == st = "idle" \/ st = "error"
canStop(st) == st = "scanning"

\* startScan up to its first await
startScan ==
    /\ page = "checkin"
    /\ IF ~canStart(state)
       THEN UNCHANGED <<error, state, scanCalls>>
       ELSE /\ error' = ""
            /\ state' = "starting"
            /\ scanCalls' = Append(scanCalls, [fn |-> "start", pc |-> "import"])
    /\ UNCHANGED <<page, mounted, storageFull, eventId, rows, items, storage, inflight, info,
                   warnings, uploading, ops, lastResp, notifyVars, pfile, presult, designerVars, printVars,
                   lastText, history, qrRef, camera, scans, otherScans>>

\* startScan after the dynamic import: the instance is made and qr.start is
\* called, or the import failed
StartImported(k, ok) ==
    /\ page = "checkin"
    /\ k \in 1..Len(scanCalls)
    /\ scanCalls[k] = [fn |-> "start", pc |-> "import"]
    /\ IF ok
       THEN /\ qrRef' = "qr"
            /\ scanCalls' = [scanCalls EXCEPT ![k].pc = "camera"]
            /\ UNCHANGED <<state, error>>
       ELSE /\ state' = "error"
            /\ error' = "start_failed"
            /\ scanCalls' = RemoveAt(scanCalls, k)
            /\ UNCHANGED qrRef
    /\ UNCHANGED <<page, mounted, storageFull, eventId, rows, items, storage, inflight, info,
                   warnings, uploading, ops, lastResp, notifyVars, pfile, presult, designerVars, printVars,
                   lastText, history, camera, scans, otherScans>>

\* startScan after qr.start: the camera runs, or the library refused (no
\* permission, or the instance is scanning already)
StartSettled(k, ok) ==
    /\ page = "checkin"
    /\ k \in 1..Len(scanCalls)
    /\ scanCalls[k] = [fn |-> "start", pc |-> "camera"]
    /\ ok => ~camera
    /\ scanCalls' = RemoveAt(scanCalls, k)
    /\ IF ok
       THEN /\ camera' = TRUE
            /\ state' = "scanning"
            /\ UNCHANGED error
       ELSE /\ state' = "error"
            /\ error' = "start_failed"
            /\ UNCHANGED camera
    /\ UNCHANGED <<page, mounted, storageFull, eventId, rows, items, storage, inflight, info,
                   warnings, uploading, ops, lastResp, notifyVars, pfile, presult, designerVars, printVars,
                   lastText, history, qrRef, scans, otherScans>>

\* stopScan up to its await; its button is enabled when canStop
stopScan ==
    /\ page = "checkin"
    /\ canStop(state)
    /\ IF qrRef = "null"
       THEN UNCHANGED <<state, error, scanCalls>>
       ELSE /\ state' = "stopping"
            /\ error' = ""
            /\ scanCalls' = Append(scanCalls, [fn |-> "stop", pc |-> "camera"])
    /\ UNCHANGED <<page, mounted, storageFull, eventId, rows, items, storage, inflight, info,
                   warnings, uploading, ops, lastResp, notifyVars, pfile, presult, designerVars, printVars,
                   lastText, history, qrRef, camera, scans, otherScans>>

\* stopScan after qr.stop: stopped and cleared, or the library threw, with
\* the camera released or not
StopSettled(k, ok, released) ==
    /\ page = "checkin"
    /\ k \in 1..Len(scanCalls)
    /\ scanCalls[k] = [fn |-> "stop", pc |-> "camera"]
    /\ ok => camera /\ released
    /\ scanCalls' = RemoveAt(scanCalls, k)
    /\ camera' = (camera /\ ~released)
    /\ IF ok
       THEN state' = "idle" /\ UNCHANGED error
       ELSE state' = "error" /\ error' = "stop_failed"
    /\ UNCHANGED <<page, mounted, storageFull, eventId, rows, items, storage, inflight, info,
                   warnings, uploading, ops, lastResp, notifyVars, pfile, presult, designerVars, printVars,
                   lastText, history, qrRef, scans, otherScans>>

\* [entry, ...prev] without the slice
KeepAll(h) == h

\* .slice(0, 20)
KeepNewest(h) == SubSeq(h, 1, IF Len(h) < HistoryMax THEN Len(h) ELSE HistoryMax)

\* the success callback of qr.start, called while the camera runs
onScanSuccess(decodedText) ==
    /\ page = "checkin"
    /\ camera
    /\ scans < MaxScans
    /\ decodedText # txtBadge1 => otherScans < MaxOtherScans
    /\ scans' = scans + 1
    /\ otherScans' = (IF decodedText # txtBadge1 THEN otherScans + 1 ELSE otherScans)
    /\ lastText' = decodedText
    /\ history' = KeepNewest(<<[text |-> decodedText, time |-> scans']>> \o history)
    /\ UNCHANGED <<page, mounted, storageFull, eventId, rows, items, storage, inflight, info,
                   warnings, uploading, ops, lastResp, notifyVars, pfile, presult, designerVars, printVars,
                   error, state, qrRef, camera, scanCalls>>

CheckinNext ==
    \/ startScan
    \/ \E k \in 1..2, ok \in BOOLEAN : StartImported(k, ok)
    \/ \E k \in 1..2, ok \in BOOLEAN : StartSettled(k, ok)
    \/ stopScan
    \/ \E k \in 1..2, ok \in BOOLEAN, released \in BOOLEAN : StopSettled(k, ok, released)
    \/ \E decodedText \in {txtBadge1, txtBadge2} : onScanSuccess(decodedText)

InitCheckin ==
    /\ page = "checkin"
    /\ mounted = TRUE
    /\ storageFull = FALSE
    /\ eventId = "e1"
    /\ rows = <<>>
    /\ items = <<>>
    /\ storage = [key \in StorageKeys |-> NoItem]
    /\ NotifyIdle
    /\ inflight = <<>>
    /\ error = ""
    /\ info = NoInfo
    /\ warnings = <<>>
    /\ uploading = FALSE
    /\ ops = 0
    /\ lastResp = NoResponse
    /\ pfile = File(<<>>, FALSE, <<>>)
    /\ presult = NotParsed
    /\ OnsiteIdle

SpecCheckin == InitCheckin /\ [][CheckinNext]_vars

----------------------------------------------------------------------------
(* Badge builder: the preview canvas and the drag of a field.               *)

MaxGestures == 1      \* drags begun and size changes made in a run

scale == 4
MM_MIN_W == 50
MM_MIN_H == 30
MM_MAX_W == 120
MM_MAX_H == 80
minW == 80
minH == 24

Min2(a, b) == IF a < b THEN a ELSE b
Max2(a, b) == IF a > b THEN a ELSE b

\* Math.max(min, Math.min(max, n))
clamp(v, lo, hi) == Max2(lo, Min2(hi, v))

canvasW == design.widthMm * scale
canvasH == design.heightMm * scale

ResizeHandles == {"nw", "ne", "sw", "se", "n", "s", "w", "e"}

\* the size presets, and Custom with the size there is
presets ==
    {<<90, 55>>, <<100, 70>>, <<85, 54>>, <<95, 60>>, <<88, 62>>,
     <<design.widthMm, design.heightMm>>}

\* what the pointer has moved by since the drag began
PointerDeltas == {<<-400, -400>>, <<30, -20>>, <<400, 400>>}

\* what can be typed into a size input, as Number(e.target.value)
SizeInputs == {0, 60, 200}

\* startMove
startMove(field) ==
    /\ page = "designer"
    /\ gestures < MaxGestures
    /\ gestures' = gestures + 1
    /\ selected' = field
    /\ dragRef' = [set |-> TRUE, active |-> TRUE, mode |-> "move", handle |-> "none",
                   field |-> field, orig |-> design.fields[field]]
    /\ UNCHANGED <<page, mounted, storageFull, eventId, rows, items, storage, inflight, error,
                   info, warnings, uploading, ops, lastResp, notifyVars, pfile, presult,
                   checkinVars, printVars, design>>

\* startResize
startResize(field, handle) ==
    /\ page = "designer"
    /\ gestures < MaxGestures
    /\ gestures' = gestures + 1
    /\ selected' = field
    /\ dragRef' = [set |-> TRUE, active |-> TRUE, mode |-> "resize", handle |-> handle,
                   field |-> field, orig |-> design.fields[field]]
    /\ UNCHANGED <<page, mounted, storageFull, eventId, rows, items, storage, inflight, error,
                   info, warnings, uploading, ops, lastResp, notifyVars, pfile, presult,
                   checkinVars, printVars, design>>

\* the rectangle onPointerMove computes for a resize by handle
Resized(orig, handle, dx, dy) ==
    LET right == orig.x + orig.w
        bottom == orig.y + orig.h
        fromLeft == handle \in {"nw", "sw", "w"}
        fromRight == handle \in {"ne", "se", "e"}
        fromTop == handle \in {"nw", "ne", "n"}
        fromBottom == handle \in {"sw", "se", "s"}
        w1 == IF fromLeft THEN right - (orig.x + dx)
              ELSE IF fromRight THEN orig.w + dx ELSE orig.w
        h1 == IF fromTop THEN bottom - (orig.y + dy)
              ELSE IF fromBottom THEN orig.h + dy ELSE orig.h
        w2 == Max2(w1, minW)
        h2 == Max2(h1, minH)
        x2 == IF fromLeft THEN right - w2 ELSE orig.x
        y2 == IF fromTop THEN bottom - h2 ELSE orig.y
        \* applyClamp
        x3 == clamp(x2, 0, canvasW - w2)
        y3 == clamp(y2, 0, canvasH - h2)
        w3 == clamp(w2, minW, canvasW)
        h3 == clamp(h2, minH, canvasH)
        x4 == clamp(x3, 0, canvasW - w3)
        y4 == clamp(y3, 0, canvasH - h3)
    IN  [x |-> x4, y |-> y4, w |-> w3, h |-> h3]

\* onPointerMove, the pointer being at (dx, dy) from where the drag began
onPointerMove(dx, dy) ==
    /\ page = "designer"
    /\ dragRef.set
    /\ dragRef.active
    /\ LET orig == dragRef.orig
           r == IF dragRef.mode = "move"
                THEN [x |-> orig.x + dx, y |-> orig.y + dy, w |-> orig.w, h |-> orig.h]
                ELSE Resized(orig, dragRef.handle, dx, dy)
           x == clamp(r.x, 0, canvasW - r.w)
           y == clamp(r.y, 0, canvasH - r.h)
       IN  design' = [design EXCEPT !.fields[dragRef.field] =
                         [x |-> x, y |-> y, w |-> r.w, h |-> r.h]]
    /\ UNCHANGED <<page, mounted, storageFull, eventId, rows, items, storage, inflight, error,
                   info, warnings, uploading, ops, lastResp, notifyVars, pfile, presult,
                   checkinVars, printVars, selected, dragRef, gestures>>

\* onPointerUp
onPointerUp ==
    /\ page = "designer"
    /\ dragRef.set
    /\ dragRef' = [dragRef EXCEPT !.active = FALSE]
    /\ UNCHANGED <<page, mounted, storageFull, eventId, rows, items, storage, inflight, error,
                   info, warnings, uploading, ops, lastResp, notifyVars, pfile, presult,
                   checkinVars, printVars, design, selected, gestures>>

\* the click on a size preset
PresetClick(p) ==
    /\ page = "designer"
    /\ gestures < MaxGestures
    /\ gestures' = gestures + 1
    /\ design' = [design EXCEPT !.widthMm = clamp(p[1], MM_MIN_W, MM_MAX_W),
                                !.heightMm = clamp(p[2], MM_MIN_H, MM_MAX_H)]
    /\ UNCHANGED <<page, mounted, storageFull, eventId, rows, items, storage, inflight, error,
                   info, warnings, uploading, ops, lastResp, notifyVars, pfile, presult,
                   checkinVars, printVars, selected, dragRef>>

\* onChange of the width input
WidthInput(v) ==
    /\ page = "designer"
    /\ gestures < MaxGestures
    /\ gestures' = gestures + 1
    /\ design' = [design EXCEPT !.widthMm = clamp(v, MM_MIN_W, MM_MAX_W)]
    /\ UNCHANGED <<page, mounted, storageFull, eventId, rows, items, storage, inflight, error,
                   info, warnings, uploading, ops, lastResp, notifyVars, pfile, presult,
                   checkinVars, printVars, selected, dragRef>>

\* onChange of the height input
HeightInput(v) ==
    /\ page = "designer"
    /\ gestures < MaxGestures
    /\ gestures' = gestures + 1
    /\ design' = [design EXCEPT !.heightMm = clamp(v, MM_MIN_H, MM_MAX_H)]
    /\ UNCHANGED <<page, mounted, storageFull, eventId, rows, items, storage, inflight, error,
                   info, warnings, uploading, ops, lastResp, notifyVars, pfile, presult,
                   checkinVars, printVars, selected, dragRef>>

\* reset
reset ==
    /\ page = "designer"
    /\ design' = DEFAULTS
    /\ selected' = "name"
    /\ info' = Info("design_reset", 0, 0)
    /\ UNCHANGED <<page, mounted, storageFull, eventId, rows, items, storage, inflight, error,
                   warnings, uploading, ops, lastResp, notifyVars, pfile, presult,
                   checkinVars, printVars, dragRef, gestures>>

DesignerNext ==
    \/ \E field \in FieldTypes : startMove(field)
    \/ \E field \in FieldTypes, handle \in ResizeHandles : startResize(field, handle)
    \/ \E d \in PointerDeltas : onPointerMove(d[1], d[2])
    \/ onPointerUp
    \/ \E p \in presets : PresetClick(p)
    \/ \E v \in SizeInputs : WidthInput(v)
    \/ \E v \in SizeInputs : HeightInput(v)
    \/ reset

InitDesigner ==
    /\ page = "designer"
    /\ mounted = TRUE
    /\ storageFull = FALSE
    /\ eventId = "e1"
    /\ rows = <<>>
    /\ items = <<>>
    /\ storage = [key \in StorageKeys |-> NoItem]
    /\ NotifyIdle
    /\ inflight = <<>>
    /\ error = ""
    /\ info = NoInfo
    /\ warnings = <<>>
    /\ uploading = FALSE
    /\ ops = 0
    /\ lastResp = NoResponse
    /\ pfile = File(<<>>, FALSE, <<>>)
    /\ presult = NotParsed
    /\ OnsiteIdle

SpecDesigner == InitDesigner /\ [][DesignerNext]_vars

----------------------------------------------------------------------------
(* Print page: the cache of QR images.                                      *)
(* An image is what it encodes and the scale it was drawn at; the lists     *)
(* here are shorter than the 60 badges of the preview.                      *)

\* loadEvents(): the events in storage
PrintEvents == <<"e1", "e2">>

\* loadParticipants(eventId): one participant is registered for both events
loadParticipants(ev) ==
    IF ev = "e1" THEN <<[id |-> "pA"], [id |-> "pB"]>>
    ELSE IF ev = "e2" THEN <<[id |-> "pA"], [id |-> "pC"]>>
    ELSE <<>>

\* `EM1|${eventId}|${participantId}`, as its parts
buildQrPayload(ev, participantId) == <<"EM1", ev, participantId>>

IdsOf(list) == {list[i].id : i \in 1..Len(list)}

\* next: the cache base, and an image of the given scale for every
\* participant of the list that base has none for
WithGenerated(base, list, ev, sc) ==
    [pid \in DOMAIN base \cup IdsOf(list) |->
        IF pid \in DOMAIN base THEN base[pid]
        ELSE [payload |-> buildQrPayload(ev, pid), scale |-> sc]]

\* gen() of the preview effect, as the render that ran the effect saw the state
PreviewGen(ev, list, base) ==
    [kind |-> "preview", eventId |-> ev, list |-> list, base |-> base, showQr |-> TRUE]

\* the generations that a cleanup of the preview effect does not cancel
NotCancelled(gs) == SelectSeq(gs, LAMBDA g : g.kind = "download")

\* the effects of the first render: the first event is selected, its
\* participants are loaded, and the preview generation starts
PrintMount ==
    /\ page = "print"
    /\ ~mounted
    /\ mounted' = TRUE
    /\ eventId' = PrintEvents[1]
    /\ participants' = loadParticipants(eventId')
    /\ qrMap' = NoQr
    /\ gens' = <<PreviewGen(eventId', participants', qrMap')>>
    /\ UNCHANGED <<page, storageFull, rows, items, storage, inflight, error, info, warnings,
                   uploading, ops, lastResp, notifyVars, pfile, presult,
                   checkinVars, designerVars, showQr, isDownloading>>

\* onChange of the event select, and the effects of the renders that follow.
\* The preview effect first runs with the participants and the cache of the
\* event left; raced: that run finished before the next render cancelled it.
SelectEvent(ev, raced) ==
    /\ page = "print"
    /\ mounted
    /\ ev # eventId
    /\ eventId' = ev
    /\ participants' = loadParticipants(ev)
    /\ qrMap' = (IF raced /\ showQr THEN WithGenerated(qrMap, participants, ev, 6) ELSE NoQr)
    /\ gens' = (IF showQr
                THEN Append(NotCancelled(gens), PreviewGen(ev, participants', qrMap'))
                ELSE NotCancelled(gens))
    /\ UNCHANGED <<page, mounted, storageFull, rows, items, storage, inflight, error, info,
                   warnings, uploading, ops, lastResp, notifyVars, pfile, presult,
                   checkinVars, designerVars, showQr, isDownloading>>

\* onChange of the QR checkbox, and the preview effect run again
ToggleShowQr ==
    /\ page = "print"
    /\ mounted
    /\ showQr' = ~showQr
    /\ gens' = (IF showQr'
                THEN Append(NotCancelled(gens), PreviewGen(eventId, participants, qrMap))
                ELSE NotCancelled(gens))
    /\ UNCHANGED <<page, mounted, storageFull, eventId, rows, items, storage, inflight, error,
                   info, warnings, uploading, ops, lastResp, notifyVars, pfile, presult,
                   checkinVars, designerVars, participants, qrMap, isDownloading>>

\* gen() after Promise.all, not cancelled
PreviewSettles(k) ==
    /\ page = "print"
    /\ k \in 1..Len(gens)
    /\ gens[k].kind = "preview"
    /\ qrMap' = WithGenerated(gens[k].base, gens[k].list, gens[k].eventId, 6)
    /\ gens' = RemoveAt(gens, k)
    /\ UNCHANGED <<page, mounted, storageFull, eventId, rows, items, storage, inflight, error,
                   info, warnings, uploading, ops, lastResp, notifyVars, pfile, presult,
                   checkinVars, designerVars, participants, showQr, isDownloading>>

\* onDownloadHtml up to the first await of ensureAllQrDataUrls
onDownloadHtml ==
    /\ page = "print"
    /\ mounted
    /\ eventId # ""
    /\ participants # <<>>
    /\ ~isDownloading
    /\ isDownloading' = TRUE
    /\ gens' = Append(gens, [kind |-> "download", eventId |-> eventId, list |-> participants,
                             base |-> qrMap, showQr |-> showQr])
    /\ UNCHANGED <<page, mounted, storageFull, eventId, rows, items, storage, inflight, error,
                   info, warnings, uploading, ops, lastResp, notifyVars, pfile, presult,
                   checkinVars, designerVars, participants, qrMap, showQr>>

\* ensureAllQrDataUrls after its last await, and the rest of onDownloadHtml
DownloadSettles(k) ==
    /\ page = "print"
    /\ k \in 1..Len(gens)
    /\ gens[k].kind = "download"
    /\ qrMap' = (IF gens[k].showQr
                 THEN WithGenerated(gens[k].base, gens[k].list, gens[k].eventId, 8)
                 ELSE gens[k].base)
    /\ isDownloading' = FALSE
    /\ gens' = RemoveAt(gens, k)
    /\ UNCHANGED <<page, mounted, storageFull, eventId, rows, items, storage, inflight, error,
                   info, warnings, uploading, ops, lastResp, notifyVars, pfile, presult,
                   checkinVars, designerVars, participants, showQr>>

PrintNext ==
    \/ PrintMount
    \/ \E ev \in {"e1", "e2"}, raced \in BOOLEAN : SelectEvent(ev, raced)
    \/ ToggleShowQr
    \/ \E k \in 1..2 : PreviewSettles(k)
    \/ onDownloadHtml
    \/ \E k \in 1..2 : DownloadSettles(k)

InitPrint ==
    /\ page = "print"
    /\ mounted = FALSE
    /\ storageFull = FALSE
    /\ eventId = ""
    /\ rows = <<>>
    /\ items = <<>>
    /\ storage = [key \in StorageKeys |-> NoItem]
    /\ NotifyIdle
    /\ inflight = <<>>
    /\ error = ""
    /\ info = NoInfo
    /\ warnings = <<>>
    /\ uploading = FALSE
    /\ ops = 0
    /\ lastResp = NoResponse
    /\ pfile = File(<<>>, FALSE, <<>>)
    /\ presult = NotParsed
    /\ OnsiteIdle

SpecPrint == InitPrint /\ [][PrintNext]_vars

Init ==
    \/ InitRoster \/ InitGlobal \/ InitParser \/ InitPicker \/ InitNotify
    \/ InitCheckin \/ InitDesigner \/ InitPrint

Next ==
    \/ RosterNext \/ GlobalNext \/ ParserNext \/ PickerNext \/ NotifyNext
    \/ CheckinNext \/ DesignerNext \/ PrintNext

Spec == Init /\ [][Next]_vars

----------------------------------------------------------------------------
(* The dedup key of the data model, and the steps that write a merge *)

\* e-mail (trimmed, lower-cased) when the record has one, else the pair of
\* lower-cased name and digits-only phone
DedupKey(r) ==
    IF Get(r, "email") # <<>>
    THEN <<"email", ToLowerCase(Trim(r.email))>>
    ELSE <<"name+phone", ToLowerCase(r.name), onlyDigits(Get(r, "phone"))>>

NoDuplicateKeys(coll) ==
    \A i \in 1..Len(coll) : \A j \in 1..Len(coll) :
        i # j => DedupKey(coll[i]) # DedupKey(coll[j])

Range(q) == {q[i] : i \in 1..Len(q)}

\* the response is one the bulk call counts as success: 2xx with a body that parses
RemoteSuccess(resp) ==
    resp.net = "ok" /\ resp.status \in 200..299 /\ resp.body # "invalid"

\* this step is the roster upload k writing its merge
RosterWrites(k) ==
    /\ page = "roster"
    /\ k \in 1..Len(inflight)
    /\ inflight' = RemoveAt(inflight, k)
    /\ parseFileToParticipants(inflight[k].file).ok

\* this step is the global upload k returning from the bulk call without success
GlobalFallsBack(k) ==
    /\ page = "global"
    /\ mounted'
    /\ k \in 1..Len(inflight)
    /\ inflight[k].pc = "posting"
    /\ inflight' = RemoveAt(inflight, k)
    /\ ~RemoteSuccess(lastResp')

\* the accepted records of roster upload k
RosterIncoming(k) == parseFileToParticipants(inflight[k].file).rows

----------------------------------------------------------------------------
(* C1: on the roster page no two records of the collection share a dedup   *)
(* key (e-mail, else lower-cased name with digits-only phone).             *)
C1_RosterKeysUnique == page = "roster" => NoDuplicateKeys(rows)

(* C2: on the global participants page no two records of the collection    *)
(* share a dedup key, records with neither e-mail nor phone included.      *)
C2_GlobalKeysUnique == page = "global" => NoDuplicateKeys(items)

\* an existing record whose key an incoming record has is kept as it was,
\* and is the only record of the result with that key
ExistingWins(existing, incoming, result) ==
    \A i \in 1..Len(existing) :
        (\E j \in 1..Len(incoming) : DedupKey(incoming[j]) = DedupKey(existing[i]))
        => /\ existing[i] \in Range(result)
           /\ Cardinality({m \in 1..Len(result) :
                              DedupKey(result[m]) = DedupKey(existing[i])}) = 1

(* C3: in every upload merge, of two records with the same dedup key the    *)
(* one of the existing collection is kept and the incoming one is dropped. *)
C3_ExistingWins ==
    [][\A k \in 1..Len(inflight) :
          /\ RosterWrites(k)
             => ExistingWins(inflight[k].snap, RosterIncoming(k), rows')
          /\ GlobalFallsBack(k)
             => ExistingWins(inflight[k].snap, inflight[k].parsed, items')]_vars

(* C4: an import merges into the collection as it stands when the result   *)
(* is written, so a change made while it was suspended is not lost.        *)
C4_MergeIntoCurrent ==
    [][\A k \in 1..Len(inflight) :
          /\ RosterWrites(k) => rows' = RosterMerge(rows, RosterIncoming(k))
          /\ GlobalFallsBack(k)
             => items' = GlobalMerge(MapRows(inflight[k].parsed), items)]_vars

\* every incoming record has the key of a record of the collection
AllPresent(existing, incoming) ==
    /\ incoming # <<>>
    /\ NoDuplicateKeys(existing)
    /\ \A j \in 1..Len(incoming) :
          \E i \in 1..Len(existing) : DedupKey(existing[i]) = DedupKey(incoming[j])

(* C5: an upload whose accepted records are all present already leaves the  *)
(* size of the collection unchanged and yields no duplicate dedup keys.    *)
C5_MergeIdempotent ==
    [][\A k \in 1..Len(inflight) :
          /\ (RosterWrites(k) /\ AllPresent(inflight[k].snap, RosterIncoming(k)))
             => Len(rows') = Len(inflight[k].snap) /\ NoDuplicateKeys(rows')
          /\ (GlobalFallsBack(k) /\ AllPresent(inflight[k].snap, inflight[k].parsed))
             => Len(items') = Len(inflight[k].snap) /\ NoDuplicateKeys(items')]_vars

(* C6: an upload merge changes no field of a record: every record of the    *)
(* result is, field for field, a record of the existing collection or an   *)
(* accepted record of the file.                                            *)
C6_NoFieldChange ==
    [][\A k \in 1..Len(inflight) :
          /\ RosterWrites(k)
             => Range(rows') \subseteq Range(inflight[k].snap) \cup Range(RosterIncoming(k))
          /\ GlobalFallsBack(k)
             => Range(items') \subseteq Range(inflight[k].snap) \cup Range(inflight[k].parsed)]_vars

\* an upload whose duplicate of another name and letter case was dropped
C6_Witness ==
    /\ page = "roster"
    /\ info = Info("uploaded", 1, 1)
    /\ rows = << [name |-> nameC, email |-> emailx] >>
    /\ ops = 1

----------------------------------------------------------------------------
(* Header rows and rejected files, read off the file itself *)

\* the label of a header cell: trimmed, whitespace removed, lower-cased
NormalLabel(c) == ToLowerCase(RemoveSpaces(Trim(CellText(c))))

IsNameLabel(c) == NormalLabel(c) \in {koName, enName}

\* the file has a sheet with a row that holds a value
HasRows(file) == file.readable /\ file.hasSheet /\ \E g \in 1..Len(file.grid) : ~IsBlankRow(file.grid[g])

\* the header row: the first row that holds a value
HeaderRowOf(file) ==
    file.grid[CHOOSE g \in 1..Len(file.grid) :
                 ~IsBlankRow(file.grid[g]) /\ \A m \in 1..(g - 1) : IsBlankRow(file.grid[m])]

HasNameHeader(file) ==
    HasRows(file) /\ \E idx \in 1..Len(HeaderRowOf(file)) : IsNameLabel(HeaderRowOf(file)[idx])

\* the message the import must abort with
AbortMessage(file) ==
    IF ~file.hasSheet THEN "no_sheet"
    ELSE IF ~HasRows(file) THEN "no_data"
    ELSE "missing_name"

\* this step is upload k of the roster or the global page returning from the
\* file read
ReadReturns(k) ==
    /\ (page = "roster" \/ page = "global")
    /\ mounted'
    /\ k \in 1..Len(inflight)
    /\ inflight[k].pc = "parsing"
    /\ Len(inflight') <= Len(inflight)
    /\ inflight' # inflight
    /\ \A m \in 1..(k - 1) : inflight'[m] = inflight[m]
    /\ k <= Len(inflight') => inflight'[k] # inflight[k]

(* C7: a file with no sheet, no rows or no header cell that resolves to     *)
(* name aborts the import with its error message; nothing is parsed or     *)
(* merged, and the collection in memory and in storage stays as it was.    *)
C7_AbortLeavesCollection ==
    [][\A k \in 1..Len(inflight) :
          (ReadReturns(k) /\ inflight[k].file.readable /\ ~HasNameHeader(inflight[k].file))
          => /\ inflight' = RemoveAt(inflight, k)
             /\ error' = AbortMessage(inflight[k].file)
             /\ rows' = rows
             /\ items' = items
             /\ storage' = storage
             /\ warnings' = warnings
             /\ info' = info]_vars

\* an import of a file without a name column has aborted on a page that holds records
C7_Witness ==
    /\ error = "missing_name"
    /\ inflight = <<>>
    /\ Len(rows) + Len(items) > 0

\* the alias table of the parser the harness ran
AliasesBy(by) == IF by = "roster" THEN RosterAliases ELSE GlobalAliases

(* C8: when a cell of the header row equals an alias of name after          *)
(* trimming, removing whitespace and lower-casing, header resolution       *)
(* succeeds and binds that column to name, whatever the other columns are. *)
C8_NameHeaderResolves ==
    (presult.by # "none" /\ HasRows(pfile))
    => \A idx \in 1..Len(HeaderRowOf(pfile)) :
          IsNameLabel(HeaderRowOf(pfile)[idx])
          => /\ presult.ok
             /\ HeaderMapOf(AliasesBy(presult.by), SheetToAoa(pfile.grid))[idx] = "name"
             /\ \A g \in 2..Len(pfile.grid) :
                   (~IsBlankRow(pfile.grid[1])
                    /\ Trim(CellText(CellAt(pfile.grid[g], idx))) # <<>>
                    /\ \A other \in 1..Len(HeaderRowOf(pfile)) :
                          other > idx => ~IsNameLabel(HeaderRowOf(pfile)[other]))
                   => \E r \in Range(presult.rows) :
                         r.name = Trim(CellText(CellAt(pfile.grid[g], idx)))

\* a header written " Na me<TAB>" beside an unrecognised column was resolved
C8_Witness ==
    /\ presult.by = "roster"
    /\ presult.ok
    /\ Len(pfile.grid) = 2
    /\ pfile.grid[1] = <<StrCell(headerUnknown), StrCell(headerSpaced)>>
    /\ Len(presult.rows) = 1

\* the number of times x occurs in q
Count(q, x) == Cardinality({i \in 1..Len(q) : q[i] = x})

\* the row has no text in any column whose header is a name label
NameIsEmpty(file, row) ==
    \A idx \in 1..Len(HeaderRowOf(file)) :
        IsNameLabel(HeaderRowOf(file)[idx]) => Trim(CellText(CellAt(row, idx))) = <<>>

(* C9: a data row with an empty or whitespace-only name cell yields no      *)
(* record and exactly one warning, whose row number is the row's 1-based   *)
(* position in the file with the header as row 1, also after blank rows.   *)
C9_WarningRowNumber ==
    (presult.by # "none" /\ presult.ok /\ ~IsBlankRow(pfile.grid[1]))
    => /\ \A g \in 2..Len(pfile.grid) :
             (~IsBlankRow(pfile.grid[g]) /\ NameIsEmpty(pfile, pfile.grid[g]))
             => Count(presult.warnings, g) = 1
       /\ Len(presult.rows) =
             Cardinality({g \in 2..Len(pfile.grid) : ~NameIsEmpty(pfile, pfile.grid[g])})

\* a parsed record stands in the collection, itself or as a record with its
\* e-mail or its phone number
Merged(r, coll) ==
    \E m \in 1..Len(coll) :
        \/ coll[m] = r
        \/ Get(r, "email") # <<>> /\ Get(coll[m], "email") # <<>>
           /\ ToLowerCase(Trim(coll[m].email)) = ToLowerCase(Trim(r.email))
        \/ Get(r, "phone") # <<>> /\ Get(coll[m], "phone") # <<>>
           /\ onlyDigits(coll[m].phone) = onlyDigits(r.phone)

(* C10: when the bulk call does not return success (non-2xx status, network *)
(* error or a body that does not parse) the parsed records are merged into *)
(* the local collection, the message says so, and no error is raised.      *)
C10_FallbackOnFailure ==
    [][\A k \in 1..Len(inflight) :
          GlobalFallsBack(k)
          => /\ info'.kind = "api_fallback"
             /\ error' = error
             /\ \A j \in 1..Len(inflight[k].parsed) : Merged(inflight[k].parsed[j], items')
             /\ ~storageFull => storage'[globalKey] = Item(items')]_vars

\* a 2xx answer with an unreadable body ended in the local fallback
C10_Witness ==
    /\ page = "global"
    /\ lastResp = [net |-> "ok", status |-> 200, body |-> "invalid"]
    /\ info.kind = "api_fallback"
    /\ error = "null"
    /\ items # <<>>

----------------------------------------------------------------------------
(* Loading, scopes and the round trip through a downloaded sheet *)

\* the stored value is absent, is not JSON, or is JSON but not an array
Malformed(item) == ~item.present \/ item.kind \in {"empty", "invalid", "nonarray"}

\* the collection a stored value stands for
StoredCollection(item) == IF Malformed(item) THEN <<>> ELSE item.val

\* this step is the first load of the page
FirstLoad(p) == page = p /\ ~mounted /\ mounted'

\* this step opens the participant picker
PickerLoads == page = "picker" /\ ~pickerOpen /\ pickerOpen'

(* C11: when the stored value is absent, is not valid JSON or is not an     *)
(* array, loading yields an empty collection and raises no error, on the   *)
(* roster page, on the global page and in the participant picker.          *)
C11_LoadTolerant ==
    [][/\ (FirstLoad("roster") /\ Malformed(storage[storageKey(eventId)]))
          => rows' = <<>> /\ error' = error /\ page' = page
       /\ (FirstLoad("global") /\ Malformed(storage[globalKey]))
          => items' = <<>> /\ error' = error /\ page' = page
       /\ (PickerLoads /\ Malformed(storage[globalKey]))
          => dbParticipants' = <<>> /\ error' = error /\ page' = page]_vars

(* C12: on the roster page every step leaves the stored value of every      *)
(* other scope as it was, and a change of the event identifier leaves the  *)
(* stored collection of both events as it was.                             *)
C12_ScopesIndependent ==
    [][page = "roster"
       => /\ \A key \in StorageKeys :
                key \notin {storageKey(eventId), storageKey(eventId')}
                => storage'[key] = storage[key]
          /\ eventId' # eventId
             => /\ storage'[storageKey(eventId)] = storage[storageKey(eventId)]
                /\ StoredCollection(storage'[storageKey(eventId')])
                      = StoredCollection(storage[storageKey(eventId')])]_vars

\* the set of dedup keys of a collection
KeysOf(coll) == {DedupKey(coll[i]) : i \in 1..Len(coll)}

\* the fields of a record that the round trip has to preserve
RoundTripFields == {"name", "email", "phone", "company", "role", "note"}

Restrict(r, fields) == [f \in DOMAIN r \cap fields |-> r[f]]

(* C13: uploading the sheet downloaded from a roster into an empty roster   *)
(* yields the dedup keys of the original roster, and every record keeps    *)
(* its name, email, phone, company, role and note.                         *)
C13_RoundTrip ==
    [][\A k \in 1..Len(inflight) : \A coll \in DownloadedRosters :
          (RosterWrites(k) /\ inflight[k].snap = <<>> /\ inflight[k].file = DownloadOf(coll))
          => /\ KeysOf(rows') = KeysOf(coll)
             /\ {Restrict(rows'[i], RoundTripFields) : i \in 1..Len(rows')}
                   = {Restrict(coll[i], RoundTripFields) : i \in 1..Len(coll)}]_vars

----------------------------------------------------------------------------
(* C14 *)

\* the extension of a file name: the lower-cased text after its last ".",
\* and nothing when the name has no "."
Extension(name) ==
    IF "." \in Range(name) THEN ToLowerCase(LastSegment(name, Len(name))) ELSE <<>>

\* C14: on the roster and the global page a file whose extension, compared
\* case-insensitively, is not xlsx, xls or csv is never handed to the reader
\* or the parser, and the step that rejects a file with the fixed message
\* leaves the collection in memory and in storage as they were.
C14_RejectsOtherExtensions ==
    [][(page = "roster" \/ page = "global")
       => /\ Len(inflight) < Len(inflight')
             => AcceptedExt(Extension(inflight'[Len(inflight')].file.name))
          /\ error' = "unsupported_format" /\ ops' = ops + 1
             => /\ rows' = rows
                /\ items' = items
                /\ storage' = storage
                /\ inflight' = inflight]_vars

----------------------------------------------------------------------------
(* C15 *)

\* this step is an operation of the global page that shortens the collection
\* and changes none of the messages: a deletion
DeletionStep ==
    /\ page = "global"
    /\ mounted'
    /\ ops' = ops + 1
    /\ Len(items') < Len(items)
    /\ info' = info /\ error' = error /\ warnings' = warnings
    /\ inflight' = inflight

(* C15: while writing to storage throws, every step of the roster and the  *)
(* global page leaves the page standing, and the upload, registration,     *)
(* deletion, reset or clear that triggered the write shows in the          *)
(* collection in memory, with the error message the operation sets when    *)
(* the write succeeds.                                                     *)
C15_WriteFailureSwallowed ==
    [][(storageFull /\ (page = "roster" \/ page = "global"))
       => /\ page' = page
          /\ \A k \in 1..Len(inflight) :
                RosterWrites(k)
                => /\ KeysOf(RosterIncoming(k)) \subseteq KeysOf(rows')
                   /\ error' = error
          /\ \A k \in 1..Len(inflight) :
                GlobalFallsBack(k)
                => /\ \A j \in 1..Len(inflight[k].parsed) :
                         Merged(inflight[k].parsed[j], items')
                   /\ error' = error
          /\ (info' = Info("cleared", 0, 0) /\ ops' = ops + 1 /\ eventId' = eventId)
             => (rows' = <<>> /\ error' = "null")
          /\ (info' = Info("reset", 0, 0) /\ ops' = ops + 1 /\ ~DeletionStep)
             => (items' = <<>> /\ error' = "null")
          /\ (info' = Info("registered", 0, 0) /\ ops' = ops + 1 /\ ~DeletionStep)
             => (Len(items') = Len(items) + 1 /\ error' = "null")
          /\ DeletionStep
             => \E pos \in 1..Len(items) : items' = RemoveAt(items, pos)]_vars

\* an upload went into the roster in memory while storage refused the write
C15_Witness ==
    /\ page = "roster"
    /\ storageFull
    /\ info.kind = "uploaded"
    /\ rows # <<>>
    /\ storage[storageKey(eventId)] # Item(rows)

----------------------------------------------------------------------------
(* C16 *)

IsEmailLabel(c) == NormalLabel(c) \in {koEmail, enEmail}

\* the data rows the parser reads: the rows that hold a value, after the header
DataRowsRead(file) == Tail(SelectSeq(file.grid, LAMBDA row : ~IsBlankRow(row)))

\* the data rows with a name, in file order
NamedRows(file) == SelectSeq(DataRowsRead(file), LAMBDA row : ~NameIsEmpty(file, row))

\* the name of a data row: the text of its last name column that holds text
NameText(file, row) ==
    LET hdr == HeaderRowOf(file)
        filled == {idx \in 1..Len(hdr) :
                      IsNameLabel(hdr[idx]) /\ Trim(CellText(CellAt(row, idx))) # <<>>}
        last == CHOOSE idx \in filled : \A other \in filled : other <= idx
    IN  Trim(CellText(CellAt(row, last)))

\* the row holds text in a column whose header is an e-mail label
HasEmailText(file, row) ==
    \E idx \in 1..Len(HeaderRowOf(file)) :
        IsEmailLabel(HeaderRowOf(file)[idx]) /\ Trim(CellText(CellAt(row, idx))) # <<>>

(* C16: a parse that succeeds returns one record for every data row with a *)
(* name, in the order of the rows, and one warning for every other data    *)
(* row: the records and the warnings together are as many as the data rows *)
(* read.                                                                   *)
C16_RecordsAndWarnings ==
    (presult.by # "none" /\ presult.ok)
    => /\ Len(presult.rows) = Len(NamedRows(pfile))
       /\ \A i \in 1..Len(NamedRows(pfile)) :
             /\ i <= Len(presult.rows)
             /\ presult.rows[i].name = NameText(pfile, NamedRows(pfile)[i])
             /\ ("email" \in DOMAIN presult.rows[i]) = HasEmailText(pfile, NamedRows(pfile)[i])
       /\ Len(presult.warnings) = Len(DataRowsRead(pfile)) - Len(NamedRows(pfile))
       /\ Len(presult.rows) + Len(presult.warnings) = Len(DataRowsRead(pfile))

\* two data rows without a name gave two warnings and no record
C16_Witness ==
    /\ presult.by = "roster"
    /\ presult.ok
    /\ Len(DataRowsRead(pfile)) = 2
    /\ presult.rows = <<>>
    /\ Len(presult.warnings) = 2

\* a record without an e-mail came out before a record with one
C16_WitnessOrder ==
    /\ presult.by = "global"
    /\ presult.ok
    /\ Len(presult.rows) = 2
    /\ "email" \notin DOMAIN presult.rows[1]
    /\ "email" \in DOMAIN presult.rows[2]

----------------------------------------------------------------------------
(* C17 *)

(* C17: no field of a record the parser returns holds the empty text, and  *)
(* a record whose row has no text, or only whitespace, in every e-mail     *)
(* column has no e-mail field.                                             *)
C17_NoEmptyFields ==
    (presult.by # "none" /\ presult.ok)
    => \A i \in 1..Len(presult.rows) :
          /\ \A f \in DOMAIN presult.rows[i] : presult.rows[i][f] # <<>>
          /\ (i <= Len(NamedRows(pfile)) /\ ~HasEmailText(pfile, NamedRows(pfile)[i]))
             => "email" \notin DOMAIN presult.rows[i]

\* a row with a name and a whitespace-only e-mail cell gave a record without e-mail
C17_Witness ==
    /\ presult.by # "none"
    /\ presult.ok
    /\ pfile.grid = <<<<StrCell(koName), StrCell(koEmail)>>,
                      <<StrCell(nameC), StrCell(blankText)>>>>
    /\ presult.rows = <<[name |-> nameC]>>

----------------------------------------------------------------------------
(* C18 *)

\* this step is a notify upload that ends with its completion message
NotifyUploadDone ==
    /\ page = "notify"
    /\ Len(inflight') < Len(inflight)
    /\ error' = "upload_done"

\* the number of records of the result that the collection did not hold
RecordsGained(before, after) ==
    Cardinality({i \in 1..Len(after) : after[i] \notin Range(before)})

(* C18: the number an upload reports as added is the number of records it  *)
(* added: on the roster and the global page the records the collection has *)
(* gained, on the notify page the targets appended.                        *)
C18_AddedCount ==
    [][/\ \A k \in 1..Len(inflight) :
             /\ RosterWrites(k)
                => info'.added = RecordsGained(rows, rows')
             /\ GlobalFallsBack(k)
                => info'.added = RecordsGained(items, items')
       /\ NotifyUploadDone
          => info'.added = Len(targets') - Len(targets)]_vars

\* the notify conjunct of C18 alone
C18_NotifyAddedCount ==
    [][NotifyUploadDone => info'.added = Len(targets') - Len(targets)]_vars

----------------------------------------------------------------------------
(* C19 *)

(* C19: on the notify page no two targets have the same e-mail address     *)
(* when the addresses are compared trimmed and without regard to letter    *)
(* case.                                                                   *)
C19_TargetEmailsUnique ==
    page = "notify"
    => \A i, j \in 1..Len(targets) :
          i # j => ToLowerCase(Trim(targets[i].email)) # ToLowerCase(Trim(targets[j].email))

----------------------------------------------------------------------------
(* C20 *)

\* the text a row holds under a column whose header is one of the candidates
FieldText(r, candidates) ==
    LET texts == {Trim(r[h]) : h \in {g \in DOMAIN r : normalizeHeader(g) \in candidates}}
                    \ {<<>>}
    IN  IF texts = {} THEN <<>> ELSE CHOOSE t \in texts : TRUE

\* the dedup key of a row of the preview: its e-mail trimmed and lower-cased,
\* else its lower-cased name with the digits of its phone
RowKey(r) ==
    IF FieldText(r, EmailCandidates) # <<>>
    THEN txtEmailColon \o ToLowerCase(FieldText(r, EmailCandidates))
    ELSE txtNameColon \o ToLowerCase(FieldText(r, NameCandidates))
         \o txtPhoneSep \o onlyDigits(FieldText(r, PhoneCandidates))

\* the picker closes in this step
PickerCloses == page = "picker" /\ pickerOpen /\ ~pickerOpen'

\* the rows appended in this step
Handed == SubSeq(rows', Len(rows) + 1, Len(rows'))

\* the rows appended are picked participants, new to the preview and to
\* each other by their dedup key
HandedRowsAreNew ==
    /\ Len(rows') >= Len(rows)
    /\ SubSeq(rows', 1, Len(rows)) = rows
    /\ \A i \in 1..Len(Handed) :
          /\ \E m \in 1..Len(dbParticipants) :
                dbParticipants[m].id \in selectedIds
                /\ Handed[i] = MappedRow(dbParticipants[m])
          /\ \A m \in 1..Len(rows) : RowKey(Handed[i]) # RowKey(rows[m])
          /\ \A j \in 1..Len(Handed) : i # j => RowKey(Handed[i]) # RowKey(Handed[j])

(* C20: when the picker closes, the rows appended to the preview are       *)
(* picked participants of the list, no two of them have the same dedup     *)
(* key, and none has the dedup key of a row the preview held before.       *)
C20_HandedRowsAreNew == [][PickerCloses => HandedRowsAreNew]_vars

\* the same for a preview whose columns are name, email, company and phone
C20_BaseHeaderRows ==
    [][(PickerCloses /\ \A m \in 1..Len(headers) : headers[m] \in Range(BaseHeaders))
       => HandedRowsAreNew]_vars

----------------------------------------------------------------------------
(* C21 *)

\* this step is a load of the global page that shows the example records
SeedsAtLoad ==
    /\ FirstLoad("global")
    /\ info'.kind \in {"mock_injected", "mock_no_storage"}

\* this step is the reset of the global page
ResetStep ==
    /\ page = "global"
    /\ ops' = ops + 1
    /\ mounted'
    /\ info' = Info("reset", 0, 0)
    /\ ~DeletionStep

\* a load of the global page seeds only when storage holds no valid
\* collection, and a load from a stored empty collection shows it empty
LoadSeedsOnlyWithoutCollection ==
    /\ SeedsAtLoad => Malformed(storage[globalKey])
    /\ (FirstLoad("global") /\ storage[globalKey] = Item(<<>>))
       => (items' = <<>> /\ info' = info)

----------------------------------------------------------------------------
(* C26 *)

(* C26: a mount of the roster page or of the global page whose storage     *)
(* holds a valid collection ends, once the load and save effects of the    *)
(* mount have run, with that collection in memory and in storage.          *)
C26_MountKeepsCollection ==
    [][/\ (FirstLoad("roster") /\ LoadsArray(storage[storageKey(eventId)]))
          => /\ rows' = storage[storageKey(eventId)].val
             /\ storage'[storageKey(eventId)] = storage[storageKey(eventId)]
       /\ (FirstLoad("global") /\ LoadsArray(storage[globalKey]))
          => /\ items' = storage[globalKey].val
             /\ storage'[globalKey] = storage[globalKey]]_vars

----------------------------------------------------------------------------
(* C24 *)

(* C24: an upload merge keeps every dedup key of the collection it merges  *)
(* into: each key the collection had is the key of a record of the result. *)
C24_KeysKept ==
    [][\A k \in 1..Len(inflight) :
          /\ RosterWrites(k) => KeysOf(inflight[k].snap) \subseteq KeysOf(rows')
          /\ GlobalFallsBack(k) => KeysOf(inflight[k].snap) \subseteq KeysOf(items')]_vars

\* the roster conjunct of C24 alone
C24_RosterKeysKept ==
    [][\A k \in 1..Len(inflight) :
          RosterWrites(k) => KeysOf(inflight[k].snap) \subseteq KeysOf(rows')]_vars

----------------------------------------------------------------------------
(* C25 *)

\* every label of the template resolves to the field of its column
TemplateResolves(template, aliases) ==
    \A c \in 1..Len(template) : ResolveHeader(aliases, Trim(template[c][2])) = template[c][1]

(* C25: every header label of the roster template and export, and of the   *)
(* global template, resolves through the alias lookup of its page to the   *)
(* field the column was written from.                                      *)
C25_TemplateLabelsResolve ==
    /\ page = "roster" => TemplateResolves(TEMPLATE_HEADERS, RosterAliases)
    /\ page = "global" => TemplateResolves(GLOBAL_TEMPLATE_HEADERS, GlobalAliases)

\* the global conjunct of C25 alone
C25_GlobalTemplateResolves ==
    page = "global" => TemplateResolves(GLOBAL_TEMPLATE_HEADERS, GlobalAliases)

----------------------------------------------------------------------------
(* C30 *)

\* the fields a record of the parser may have
FieldSetBy(by) == IF by = "roster" THEN ParticipantKeys ELSE UploadRowKeys

(* C30: every record a parser returns has fields of the field set of its   *)
(* page only, whatever the header row holds beside the name column.        *)
C30_OnlyKnownFields ==
    (presult.by # "none" /\ presult.ok)
    => \A i \in 1..Len(presult.rows) : DOMAIN presult.rows[i] \subseteq FieldSetBy(presult.by)

\* the roster conjunct of C30 alone
C30_RosterOnlyKnownFields ==
    (presult.by = "roster" /\ presult.ok)
    => \A i \in 1..Len(presult.rows) : DOMAIN presult.rows[i] \subseteq ParticipantKeys


----------------------------------------------------------------------------
(* C29: every upload on the global page finishes and leaves the uploading  *)
(* flag cleared, and the flag is set only while an upload is in flight.     *)

\* the FileReader and the fetch of an upload in flight settle
GlobalFairness ==
    /\ WF_vars(\E k \in 1..MaxOps : GlobalHandleFileParsed(k))
    /\ WF_vars(\E k \in 1..MaxOps, resp \in Responses : GlobalHandleFilePosted(k, resp))

SpecGlobalFair == SpecGlobal /\ GlobalFairness

\* C29: on the global page an upload in flight leads to a state with no
\* upload in flight and the uploading flag false, whatever path each upload
\* takes, and the flag is true only while some upload is in flight.
C29_UploadFinishes ==
    /\ [](uploading => inflight # <<>>)
    /\ (inflight # <<>>) ~> (inflight = <<>> /\ ~uploading)

\* an upload went through the remote call and finished with the flag cleared
C29_Witness ==
    /\ page = "global"
    /\ mounted
    /\ lastResp # NoResponse
    /\ inflight = <<>>
    /\ ~uploading
    /\ info \in {Info("api_done", 0, 0)} \cup {Info("api_fallback", a, b) : a \in 1..4, b \in 1..8}


----------------------------------------------------------------------------
(* C22: the check-in log *)

\* this step is the success callback of a scan
ScanStep == page = "checkin" /\ scans' = scans + 1

LogInShape ==
    page = "checkin"
    => /\ Len(history) <= HistoryMax
       /\ \A i \in 1..Len(history) : \A j \in 1..Len(history) :
              i < j => history[i].time > history[j].time
       /\ lastText = (IF history = <<>> THEN <<>> ELSE history[1].text)

ScanPrepends ==
    ScanStep
    => /\ history'[1].text = lastText'
       /\ history'[1].time = scans'
       /\ Len(history') = (IF Len(history) < HistoryMax THEN Len(history) + 1 ELSE HistoryMax)
       /\ \A i \in 2..Len(history') : history'[i] = history[i - 1]

\* C22: the log never holds more than 20 entries, newest first, and the
\* last-recognised text is the text of its first entry; a scan puts its entry
\* in front of the entries there were, and what falls beyond 20 is dropped.
C22_LogNewestFirstCapped == []LogInShape /\ [][ScanPrepends]_vars

\* the log is full, older entries have been dropped, and the two newest
\* entries carry different texts
C22_Witness ==
    /\ page = "checkin"
    /\ Len(history) = HistoryMax
    /\ scans > HistoryMax
    /\ history[1].text = txtBadge2
    /\ history[2].text = txtBadge1
    /\ history[HistoryMax].time = scans - HistoryMax + 1

----------------------------------------------------------------------------
(* C28: the scanner state *)

ScanEdges ==
    { <<"idle", "starting">>, <<"error", "starting">>,
      <<"starting", "scanning">>, <<"starting", "error">>,
      <<"scanning", "stopping">>,
      <<"stopping", "idle">>, <<"stopping", "error">> }

\* startScan invocations that have not returned
StartsInProgress == {k \in 1..Len(scanCalls) : scanCalls[k].fn = "start"}

ScannerStep ==
    page = "checkin"
    => /\ state' # state => <<state, state'>> \in ScanEdges
       /\ (state = "starting" /\ state' = "scanning") => (~camera /\ camera')
       /\ Cardinality(StartsInProgress') > Cardinality(StartsInProgress)
             => state \in {"idle", "error"}

\* C28: the scanner state moves only along idle/error -> starting ->
\* scanning -> stopping -> idle, with error reached from starting and
\* stopping; a startScan call goes ahead only from idle or error; scanning is
\* entered only from starting, at the step at which the camera starts; and
\* at most one startScan call is in progress.
C28_ScannerTransitions ==
    /\ [](Cardinality(StartsInProgress) <= 1)
    /\ [][ScannerStep]_vars

\* the scanner went through a failed stop and a second start
C28_Witness ==
    /\ page = "checkin"
    /\ state = "starting"
    /\ camera
    /\ scans > 0
    /\ Cardinality(StartsInProgress) = 1


----------------------------------------------------------------------------
(* C23: the field rectangles and the preview canvas *)

FieldInside(f) ==
    /\ 0 <= design.fields[f].x
    /\ 0 <= design.fields[f].y
    /\ design.fields[f].x + design.fields[f].w <= canvasW
    /\ design.fields[f].y + design.fields[f].h <= canvasH

\* C23: in the badge builder every field rectangle lies inside the preview
\* canvas, whatever moves, resizes and changes of the badge size were made.
C23_FieldsInsideCanvas == page = "designer" => \A f \in FieldTypes : FieldInside(f)

\* a pointer move of a resize leaves the dragged field inside the canvas and
\* at least 80 by 24; a pointer move of a move leaves it inside the canvas
\* when the field is no larger than the canvas
C23_DragsStayInside ==
    [][(page = "designer" /\ design'.fields # design.fields
           /\ design'.widthMm = design.widthMm /\ design'.heightMm = design.heightMm
           /\ dragRef.active)
       => LET f == dragRef.field
              r == design'.fields[f]
          IN  /\ dragRef.mode = "resize"
                    => r.w >= minW /\ r.h >= minH /\ FieldInside(f)'
              /\ (dragRef.mode = "move" /\ r.w <= canvasW /\ r.h <= canvasH)
                    => FieldInside(f)']_vars


----------------------------------------------------------------------------
(* C27: the QR cache and the selected event *)

\* C27: on the print page a generation begun for an event that is no longer
\* the selected one writes nothing into the cache when it finishes.
C27_NoStaleWrite ==
    [][\A k \in 1..Len(gens) :
          (page = "print" /\ gens' = RemoveAt(gens, k) /\ eventId' = eventId
             /\ gens[k].eventId # eventId)
          => qrMap' = qrMap]_vars

\* every image of the cache, under a participant id, encodes
\* EM1|eventId|participantId of the event selected now
C27_CacheMatchesSelection ==
    page = "print"
    => \A pid \in DOMAIN qrMap : qrMap[pid].payload = buildQrPayload(eventId, pid)

====
